---- MODULE Spec2Model ----
(***************************************************************************)
(* A model of the session watcher of self-learning-agent (slagent):        *)
(*   - LiveWatcher (src/src/watcher/index.ts): start-up detection, the     *)
(*     poll tick over the registered adapters, sealing;                    *)
(*   - the adapters' offset-tracked log reading (src/src/adapter/*.ts);    *)
(*   - the Store's per-session event log and summary (src/unnamed/part_001)*)
(*                                                                         *)
(* Specifications:                                                         *)
(*   Spec         the watcher, with every tick finished before the timer   *)
(*                fires again (a tick shorter than pollIntervalMs);        *)
(*   SpecSlow     the watcher, with the timer firing whether or not the    *)
(*                previous tick has finished;                              *)
(*   SpecAdapter  one adapter instance polled by sequential poll and       *)
(*                pollAll calls, its log units character by character;     *)
(*   SpecStore    the Store's event log of one session, appended to and    *)
(*                read back;                                               *)
(*   SpecStop, SpecSeal, SpecSealOverlap, SpecStartStop, SpecReview,       *)
(*   SpecTiming   the watcher with stop, with sealSession called from      *)
(*                outside or overlapping, with start and stop interleaved, *)
(*                with the review command, and one session's timed log;    *)
(*   SpecReads, SpecOverlap  readNewLines around its await of readFile;    *)
(*   SpecOutcome, SpecIgnore, SpecDecode, SpecPrune, SpecRegistry,         *)
(*   SpecEnrich, SpecCli, SpecLines, SpecSealSignals, SpecGaps,            *)
(*   SpecManual, SpecTests, SpecActive, SpecNames  single functions,       *)
(*                applied once to every argument of a bounded set;         *)
(*   SpecRoute    the watcher with one more log line, all file edits.      *)
(***************************************************************************)
EXTENDS Integers, Sequences, FiniteSets, TLC

\* ------------------------------------------------------------------ bounds
NumProjects == 1      \* project directories observed
UnitsPerProject == 2  \* log units (session files) per adapter and project
MaxLines == 2         \* log lines written over a run, all units together
MaxTicks == 2         \* timer firings over a run
MaxFaults == 1        \* I/O operations that throw over a run
MaxGitSignals == 1    \* signals the enricher derives at a seal
MaxInFlight == 2      \* ticks in flight at once, in SpecSlow
\* The liveness window (5 minutes in the adapters) in units of the clock; a
\* timer period is one unit, a stalled process resumes after more than the
\* window.
LivenessWindow == 1
MaxChars == 3         \* characters written to log units over a run, in SpecAdapter
MaxCalls == 3         \* poll and pollAll calls over a run, in SpecAdapter
MaxAppends == 3       \* appendEvent calls over a run, in SpecStore
MaxSealCalls == 1     \* calls of sealSession from outside a tick, in SpecSeal
MaxGitignoreLines == 2 \* lines of .gitignore, in SpecIgnore
MaxExcludeLines == 1  \* lines of .git/info/exclude, in SpecIgnore
MaxDepth == 3         \* segments of a project path, in SpecDecode
MaxOtherDirs == 1     \* directories on disk besides the project's, in SpecDecode
MaxFiles == 2         \* files of a Store directory, in SpecPrune
MaxMtime == 4         \* latest modification time of a file, in SpecPrune
PruneClock == 3       \* the clock's reading when pruneOldData is called, in SpecPrune
MaxAdapters == 4      \* adapters registered, in SpecRegistry
MaxLogLines == 2      \* commit subjects git log returns, in SpecEnrich
MaxStored == 3        \* events of the session in the Store at a seal, in SpecOutcome
MaxCount == 2         \* tests a test_result event counts as passed or as failed
MaxPids == 2          \* processes named after the agent binary, in SpecCli
MaxTokens == 5        \* tokens of a log unit, in SpecLines

\* ------------------------------------------------------------- the registry
\* createDefaultRegistry registers claude, then codex.
Adapters == <<"claude", "codex">>
AdapterNames == {Adapters[i] : i \in 1..Len(Adapters)}
Projects == 1..NumProjects
\* sessionKey(adapterName, projectCwd)
sessionKey(a, p) == <<a, p>>
Keys == {sessionKey(a, p) : a \in AdapterNames, p \in Projects}
\* A log unit is one .jsonl file; its basename is the sessionId.
Units == {<<a, p, n>> : a \in AdapterNames, p \in Projects, n \in 1..UnitsPerProject}
UnitAdapter(u) == u[1]
UnitProject(u) == u[2]
UnitsOf(a) == {u \in Units : UnitAdapter(u) = a}
SessionIds == Units

NoSession == [sessionId |-> <<>>]
NoSummary == [id |-> <<>>]
\* The timestamp field of a claude log line is whatever the line says:
\* PastTs is a reading before the watcher started, FutureTs one that no
\* watcher clock reaches within a run (a skewed or wrong source clock).
PastTs == 0
FutureTs == (MaxTicks + 2) * (LivenessWindow + 1) + 1

VARIABLES
  running,      \* LiveWatcher.running
  pollTimer,    \* LiveWatcher.pollTimer is set
  lastPollTime, \* LiveWatcher.lastPollTime
  sessions,     \* LiveWatcher.sessions: key -> TrackedSession
  lastActive,   \* LiveWatcher.lastActive: key -> was active (absent reads false)
  events,       \* Store: events/<sessionId>.jsonl, the lines appended so far
  summaries,    \* Store: sessions/<sessionId>.json, the summary last written
  logs,         \* the agents' log units: the lines written so far
  mtime,        \* the agents' log units: time of the last write
  newest,       \* per key, the most recently modified log unit (0: none yet)
  lastOffsets,  \* each adapter's lastOffsets: lines of a unit already read
  now,          \* the wall clock, Date.now()
  inflight,     \* the pollAdapters calls in flight: [ai, since, at, log], where
                \* at is when the call began and
                \* ai is the index in Adapters of the adapter processed next
  nSummaries,   \* history: saveSessionSummary calls that succeeded, per id
  trace,        \* history: the effects of the adapter processed last
  tickLog,      \* history: per adapter, how its processing ended in the
                \* tick that finished last
  scan,         \* history: what getAllActiveSessions returned to the
                \* adapter processed last
  gone,         \* history: per key, the session that was tracked when the
                \* adapter stopped reporting it, and what was written for
                \* it since
  faults,       \* history: operations that threw so far
  ticks,        \* history: timer firings so far
  goodTick,     \* history: per adapter, when the last tick began that
                \* processed it without a throw (before any: when start
                \* set the clock)
  \* SpecAdapter
  file,         \* the log units' content, character by character
  fileOffsets,  \* the adapters' lastOffsets, in characters
  decodedTimes, \* history: per unit and position, times the character was decoded
  seenLen,      \* history: per unit, its length when last read (-1: never read)
  unchangedReads, \* history: per unit, reads that found it as the read before did
  rereadEvents, \* history: per unit, events those reads returned
  calls,        \* history: poll and pollAll calls so far
  \* SpecStore
  disk,         \* events/<sessionId>.jsonl of one session, character by character
  appended,     \* history: the events whose appendEvent returned, in order
  readBack,     \* what getSessionEvents returned last
  \* the specifications of single functions
  arg,          \* the arguments and the environment the function is called in
  result,       \* what the call returned, and what it left behind
  applied       \* the call was made

\* What the watcher's actions leave alone.
avars == <<file, fileOffsets, decodedTimes, seenLen, unchangedReads, rereadEvents, calls>>
svars == <<disk, appended, readBack>>
fvars == <<arg, result, applied>>
\* What the adapter's and the Store's actions leave alone.
wvars == <<running, pollTimer, lastPollTime, sessions, lastActive, events,
           summaries, logs, newest, lastOffsets, inflight,
           nSummaries, trace, tickLog, scan, gone, ticks, goodTick>>

vars == <<wvars, mtime, now, faults, avars, svars, fvars>>

\* ------------------------------------------------------------------ helpers
RECURSIVE SeqSum(_)
SeqSum(s) == IF s = <<>> THEN 0 ELSE Head(s) + SeqSum(Tail(s))

RECURSIVE SetToSeq(_)
\* The elements of a set of tuples of integers and strings, in a fixed order.
SetToSeq(S) ==
  IF S = {} THEN <<>>
  ELSE LET x == CHOOSE y \in S : \A z \in S : y[2] < z[2] \/ (y[2] = z[2] /\ y[3] <= z[3])
       IN <<x>> \o SetToSeq(S \ {x})

CountType(evs, t) == Cardinality({i \in 1..Len(evs) : evs[i].type = t})

\* --------------------------------------------- the watcher's working state
\* One record holds what a tick reads and writes, so that a handler is a
\* composition of its statements. failAt counts the Store writes that still
\* succeed before one throws (-1: none throws); thrown is set from the throw
\* on, and every later statement of the try block is skipped.
WState == [sessions |-> sessions, lastActive |-> lastActive, events |-> events,
           summaries |-> summaries, nSummaries |-> nSummaries,
           trace |-> <<>>, failAt |-> -1, thrown |-> FALSE]

Ok(st) == [st EXCEPT !.failAt = IF @ > 0 THEN @ - 1 ELSE @]

\* An entry of trace. cwd is the project the effect is about; src is the log
\* line a routed event was decoded from (<<>> for an event the watcher made);
\* ends is, for a summary, the number of session_end events the session's log
\* held for the lifecycle when the summary was written.
Effect(op, type, sid, cwd, src, ends) ==
  [op |-> op, type |-> type, sessionId |-> sid, cwd |-> cwd, src |-> src, ends |-> ends]

RECURSIVE EndsInLifecycle(_)
\* The session_end events of a log after its last session_start.
EndsInLifecycle(log) ==
  IF log = <<>> THEN 0
  ELSE LET e == log[Len(log)] IN
       IF e.type = "session_start" THEN 0
       ELSE (IF e.type = "session_end" THEN 1 ELSE 0) + EndsInLifecycle(SubSeq(log, 1, Len(log) - 1))

\* Store.appendEvent: one line appended to the file of event.sessionId.
appendEvent(st, ev) ==
  IF st.thrown THEN st
  ELSE IF st.failAt = 0 THEN [st EXCEPT !.thrown = TRUE]
  ELSE Ok([st EXCEPT !.events[ev.sessionId] = Append(@, ev),
                     !.trace = Append(@, Effect("append", ev.type, ev.sessionId,
                                                 ev.sessionId[2], ev.src, 0))])

\* Store.saveSessionSummary: the file of summary.id overwritten.
saveSessionSummary(st, summary) ==
  IF st.thrown THEN st
  ELSE IF st.failAt = 0 THEN [st EXCEPT !.thrown = TRUE]
  ELSE Ok([st EXCEPT !.summaries[summary.id] = summary,
                     !.nSummaries[summary.id] = @ + 1,
                     !.trace = Append(@, Effect("summary", "summary", summary.id,
                                                summary.projectCwd, <<>>,
                                                EndsInLifecycle(st.events[summary.id])))])

\* LiveWatcher.emit: listeners are called in turn, their exceptions swallowed.
emit(st, type, a, sid, p) ==
  IF st.thrown THEN st
  ELSE [st EXCEPT !.trace = Append(@, Effect("emit", type, sid, p, <<>>, 0))]

\* this.sessions.set(key, {...})
setSession(st, key, session) ==
  IF st.thrown THEN st
  ELSE [st EXCEPT !.sessions[key] = session,
                  !.trace = Append(@, Effect("track", "track", session.sessionId,
                                             session.cwd, <<>>, 0))]

\* this.lastActive.set(key, v)
setLastActive(st, key, v) ==
  IF st.thrown THEN st ELSE [st EXCEPT !.lastActive[key] = v]

TrackedSession(a, sid, startTime, p) ==
  [agent |-> a, sessionId |-> sid, eventCount |-> 0, startTime |-> startTime,
   files |-> <<>>, active |-> TRUE, cwd |-> p]

LifecycleEvent(type, sid, t) ==
  [type |-> type, sessionId |-> sid, timestamp |-> t, src |-> <<>>]

RECURSIVE appendSignals(_, _, _, _)
\* sealSession's loops over the enricher's signals (git, manual edits,
\* timing): each is appended under the session's id.
appendSignals(st, sid, n, t) ==
  IF n = 0 THEN st
  ELSE appendSignals(
         appendEvent(st, [type |-> "user_intervention", sessionId |-> sid,
                          timestamp |-> t, src |-> <<>>]),
         sid, n - 1, t)

\* The outcome sealSession derives from the events it read from the Store.
testEvents(evs) == SelectSeq(evs, LAMBDA e : e.type = "test_result")

hasFailures(tes) == \E i \in 1..Len(tes) : tes[i].failed > 0

\* A faulty variant: a run counts as a success although some of its tests failed.
hasSuccessesAnyPassed(tes) == \E i \in 1..Len(tes) : tes[i].passed > 0

hasSuccesses(tes) == \E i \in 1..Len(tes) : tes[i].passed > 0 /\ tes[i].failed = 0

outcome(evs) ==
  LET tes == testEvents(evs) IN
  IF hasFailures(tes) /\ hasSuccesses(tes) THEN "partial"
  ELSE IF hasFailures(tes) THEN "failure"
  ELSE IF hasSuccesses(tes) THEN "success"
  ELSE "unknown"

\* A faulty variant: the guard on the tracked session is missing, and reading
\* a field of the missing session throws.
sealSessionUnguarded(st, key, nGit, t) ==
  LET session == st.sessions[key] IN
  IF st.thrown THEN st
  ELSE IF session = NoSession THEN [st EXCEPT !.thrown = TRUE]
  ELSE LET s1 == appendSignals(st, session.sessionId, nGit, t)
           summary == [id |-> session.sessionId, agent |-> session.agent,
                       projectCwd |-> session.cwd,
                       startedAt |-> session.startTime, endedAt |-> t,
                       filesChanged |-> {session.files[i] : i \in 1..Len(session.files)},
                       outcome |-> outcome(st.events[session.sessionId]),
                       interventions |-> nGit, analyzed |-> FALSE]
           s2 == saveSessionSummary(s1, summary)
       IN IF s2.thrown THEN s2
          ELSE [s2 EXCEPT !.sessions[key] = NoSession,
                          !.trace = Append(@, Effect("untrack", "untrack", session.sessionId,
                                                     session.cwd, <<>>, 0))]

\* LiveWatcher.sealSession. nGit is the number of signals the enricher
\* derives at this seal.
sealSession(st, key, nGit, t) ==
  LET session == st.sessions[key] IN
  IF st.thrown \/ session = NoSession THEN st
  ELSE LET s1 == appendSignals(st, session.sessionId, nGit, t)
           summary == [id |-> session.sessionId, agent |-> session.agent,
                       projectCwd |-> session.cwd,
                       startedAt |-> session.startTime, endedAt |-> t,
                       filesChanged |-> {session.files[i] : i \in 1..Len(session.files)},
                       outcome |-> outcome(st.events[session.sessionId]),
                       interventions |-> nGit, analyzed |-> FALSE]
           s2 == saveSessionSummary(s1, summary)
       IN IF s2.thrown THEN s2
          ELSE [s2 EXCEPT !.sessions[key] = NoSession,
                          !.trace = Append(@, Effect("untrack", "untrack", session.sessionId,
                                                     session.cwd, <<>>, 0))]

\* ------------------------------------------------------------ the adapters
\* What a log line decodes to. claude stamps an event with the line's own
\* timestamp field (parseClaudeLine); codex stamps it with Date.now() at the
\* time of decoding (parseCodexLine). A codex task_complete line decodes to a
\* session_end event.
LineKinds(a) == IF a = "codex" THEN {"file_edit", "session_end"} ELSE {"file_edit"}
FilePath == "a.ts"

decodeLine(a, u, i, line, t) ==
  [type |-> line.kind, sessionId |-> u,
   timestamp |-> IF a = "claude" THEN line.ts ELSE t,
   src |-> <<u, i>>, projectCwd |-> UnitProject(u)]

\* readNewLines: the events of the lines of unit u after offset off.
readNewLines(a, u, off, t) ==
  [i \in 1..(Len(logs[u]) - off) |-> decodeLine(a, u, off + i, logs[u][off + i], t)]

RECURSIVE readUnits(_, _, _, _)
\* The events of the unread lines of the units us (a sequence), in turn.
readUnits(a, us, offs, t) ==
  IF us = <<>> THEN <<>>
  ELSE readNewLines(a, Head(us), offs[Head(us)], t) \o readUnits(a, Tail(us), offs, t)

\* The units a walk of the adapter's log store reads, in order: those of
\* the projects P that exist and were modified at or after snc.
walk(a, P, snc) ==
  SetToSeq({u \in UnitsOf(a) : UnitProject(u) \in P /\ logs[u] # <<>> /\ mtime[u] >= snc})

\* pollAll(snc) / poll(cwd, snc) when no read fails: every unit visited is
\* read to its end.
pollEvents(a, P, snc, t) == readUnits(a, walk(a, P, snc), lastOffsets, t)
pollOffsets(a, P, snc, offs) ==
  LET w == walk(a, P, snc) IN
  [u \in Units |-> IF \E j \in 1..Len(w) : w[j] = u THEN Len(logs[u]) ELSE offs[u]]
\* The same when readFile throws at the k-th unit visited: the units before it
\* were read, their offsets advanced, and the call rejects.
pollOffsetsUntil(a, P, snc, offs, k) ==
  LET w == walk(a, P, snc) IN
  [u \in Units |-> IF \E j \in 1..(k - 1) : w[j] = u THEN Len(logs[u]) ELSE offs[u]]
\* CodexAdapter.poll and pollAll call readNewLines outside any try block;
\* ClaudeAdapter's are inside one.
pollCanThrow(a) == a = "codex"

\* getAllActiveSessions at time t: per project, 0 (not reported) or the
\* number of its most recently modified log unit. A project whose newest unit
\* was modified within the liveness window is reported; an older one is
\* reported by claude if isCliRunning finds a process, and never by codex.
ActiveChoices(a, t) ==
  {act \in [Projects -> 0..UnitsPerProject] :
     \A p \in Projects :
       LET n == newest[sessionKey(a, p)] IN
       IF n = 0 THEN act[p] = 0
       ELSE IF mtime[<<a, p, n>>] >= t - LivenessWindow THEN act[p] = n
       ELSE IF a = "claude" THEN act[p] \in {0, n}
       ELSE act[p] = 0}

\* ------------------------------------------------------ faulty variants
\* handleActive with the session-id change done in the wrong order: the new
\* session is tracked before the old one is sealed.
handleActiveRespawnFirst(st, a, p, sid, nGit, t) ==
  LET key == sessionKey(a, p)
      wasActive == st.lastActive[key]
      existing == st.sessions[key]
      fresh == TrackedSession(a, sid, t, p)
      s1 == IF ~wasActive
            THEN LET b1 == IF existing # NoSession THEN sealSession(st, key, nGit, t) ELSE st
                     b2 == setSession(b1, key, fresh)
                     b3 == appendEvent(b2, LifecycleEvent("session_start", sid, t))
                     b4 == emit(b3, "agent_online", a, <<>>, p)
                 IN emit(b4, "session_start", a, sid, p)
            ELSE st
      s2 == IF wasActive /\ existing # NoSession /\ sid # existing.sessionId
            THEN LET c1 == appendEvent(s1, LifecycleEvent("session_end", existing.sessionId, t))
                     c2 == emit(c1, "session_end", a, existing.sessionId, p)
                     c3 == setSession(c2, key, fresh)
                     c4 == sealSession(c3, key, nGit, t)
                     c5 == appendEvent(c4, LifecycleEvent("session_start", sid, t))
                 IN emit(c5, "session_start", a, sid, p)
            ELSE s1
  IN setLastActive(s2, key, TRUE)

\* handleActive without the comparison of the session ids: every report of
\* an active key is taken for a new session.
handleActiveAnyReport(st, a, p, sid, nGit, t) ==
  LET key == sessionKey(a, p)
      wasActive == st.lastActive[key]
      existing == st.sessions[key]
      fresh == TrackedSession(a, sid, t, p)
      s1 == IF ~wasActive
            THEN LET b1 == IF existing # NoSession THEN sealSession(st, key, nGit, t) ELSE st
                     b2 == setSession(b1, key, fresh)
                     b3 == appendEvent(b2, LifecycleEvent("session_start", sid, t))
                     b4 == emit(b3, "agent_online", a, <<>>, p)
                 IN emit(b4, "session_start", a, sid, p)
            ELSE st
      s2 == IF wasActive /\ existing # NoSession
            THEN LET c1 == appendEvent(s1, LifecycleEvent("session_end", existing.sessionId, t))
                     c2 == emit(c1, "session_end", a, existing.sessionId, p)
                     c3 == sealSession(c2, key, nGit, t)
                     c4 == setSession(c3, key, fresh)
                     c5 == appendEvent(c4, LifecycleEvent("session_start", sid, t))
                 IN emit(c5, "session_start", a, sid, p)
            ELSE s1
  IN setLastActive(s2, key, TRUE)

\* nextAdapter with the try/catch around the loop instead of inside it: a
\* throw ends the tick.
nextAdapterAbort(i, threw) == IF threw THEN Len(Adapters) + 1 ELSE i + 1

\* -------------------------------------------------- LiveWatcher.pollAdapters
\* The body of `for (const gs of activeSessions)` for one entry.
handleActive(st, a, p, sid, nGit, t) ==
  LET key == sessionKey(a, p)
      wasActive == st.lastActive[key]
      existing == st.sessions[key]
      fresh == TrackedSession(a, sid, t, p)
      s1 == IF ~wasActive
            THEN LET b1 == IF existing # NoSession THEN sealSession(st, key, nGit, t) ELSE st
                     b2 == setSession(b1, key, fresh)
                     b3 == appendEvent(b2, LifecycleEvent("session_start", sid, t))
                     b4 == emit(b3, "agent_online", a, <<>>, p)
                 IN emit(b4, "session_start", a, sid, p)
            ELSE st
      s2 == IF wasActive /\ existing # NoSession /\ sid # existing.sessionId
            THEN LET c1 == appendEvent(s1, LifecycleEvent("session_end", existing.sessionId, t))
                     c2 == emit(c1, "session_end", a, existing.sessionId, p)
                     c3 == sealSession(c2, key, nGit, t)
                     c4 == setSession(c3, key, fresh)
                     c5 == appendEvent(c4, LifecycleEvent("session_start", sid, t))
                 IN emit(c5, "session_start", a, sid, p)
            ELSE s1
  IN setLastActive(s2, key, TRUE)

RECURSIVE activeLoop(_, _, _, _, _, _)
activeLoop(st, a, act, p, nGit, t) ==
  IF p > NumProjects THEN st
  ELSE activeLoop(IF act[p] = 0 THEN st
                  ELSE handleActive(st, a, p, <<a, p, act[p]>>, nGit, t),
                  a, act, p + 1, nGit, t)

\* A faulty variant: the key is marked inactive before the session is sealed.
handleOfflineMarksFirst(st, a, p, act, nGit, t) ==
  LET key == sessionKey(a, p)
      session == st.sessions[key]
  IN IF st.thrown \/ session = NoSession \/ act[p] # 0 \/ ~st.lastActive[key] THEN st
     ELSE LET d0 == setLastActive(st, key, FALSE)
              d1 == appendEvent(d0, LifecycleEvent("session_end", session.sessionId, t))
              d2 == emit(d1, "session_end", a, session.sessionId, p)
              d3 == emit(d2, "agent_offline", a, <<>>, p)
          IN sealSession(d3, key, nGit, t)

\* The body of the loop that detects sessions that went offline, for one key.
handleOffline(st, a, p, act, nGit, t) ==
  LET key == sessionKey(a, p)
      session == st.sessions[key]
  IN IF st.thrown \/ session = NoSession \/ act[p] # 0 \/ ~st.lastActive[key] THEN st
     ELSE LET d1 == appendEvent(st, LifecycleEvent("session_end", session.sessionId, t))
              d2 == emit(d1, "session_end", a, session.sessionId, p)
              d3 == emit(d2, "agent_offline", a, <<>>, p)
              d4 == sealSession(d3, key, nGit, t)
          IN setLastActive(d4, key, FALSE)

RECURSIVE offlineLoop(_, _, _, _, _, _)
offlineLoop(st, a, act, p, nGit, t) ==
  IF p > NumProjects THEN st
  ELSE offlineLoop(handleOffline(st, a, p, act, nGit, t), a, act, p + 1, nGit, t)

\* A faulty variant: the event is stored under the id it was decoded with.
routeEventKeepsId(st, a, ev) ==
  LET key == sessionKey(a, ev.projectCwd)
      s1 == IF st.sessions[key] = NoSession
            THEN LET e1 == setSession(st, key,
                             TrackedSession(a, ev.sessionId, ev.timestamp, ev.projectCwd))
                     e2 == setLastActive(e1, key, TRUE)
                 IN emit(e2, "session_start", a, ev.sessionId, ev.projectCwd)
            ELSE st
      s2 == IF ev.type = "file_edit"
            THEN [s1 EXCEPT !.sessions[key].files = Append(@, FilePath)]
            ELSE s1
      stored == [type |-> ev.type, sessionId |-> ev.sessionId,
                 timestamp |-> ev.timestamp, src |-> ev.src]
      s3 == appendEvent(s2, stored)
  IN IF st.thrown THEN st
     ELSE IF s3.thrown THEN s3
     ELSE [s3 EXCEPT !.sessions[key].eventCount = @ + 1]

\* The body of `for (const event of globalEvents)` for one event.
routeEvent(st, a, ev) ==
  LET key == sessionKey(a, ev.projectCwd)
      s1 == IF st.sessions[key] = NoSession
            THEN LET e1 == setSession(st, key,
                             TrackedSession(a, ev.sessionId, ev.timestamp, ev.projectCwd))
                     e2 == setLastActive(e1, key, TRUE)
                 IN emit(e2, "session_start", a, ev.sessionId, ev.projectCwd)
            ELSE st
      s2 == IF ev.type = "file_edit"
            THEN [s1 EXCEPT !.sessions[key].files = Append(@, FilePath)]
            ELSE s1
      stored == [type |-> ev.type, sessionId |-> s1.sessions[key].sessionId,
                 timestamp |-> ev.timestamp, src |-> ev.src]
      s3 == appendEvent(s2, stored)
  IN IF st.thrown THEN st
     ELSE IF s3.thrown THEN s3
     ELSE [s3 EXCEPT !.sessions[key].eventCount = @ + 1]

RECURSIVE routeLoop(_, _, _)
routeLoop(st, a, evs) ==
  IF evs = <<>> THEN st ELSE routeLoop(routeEvent(st, a, Head(evs)), a, Tail(evs))

\* The try block of pollAdapters for one adapter, after pollAll and
\* getAllActiveSessions returned evs and act.
processAdapter(st, a, evs, act, nGit, t) ==
  routeLoop(offlineLoop(activeLoop(st, a, act, 1, nGit, t), a, act, 1, nGit, t), a, evs)

\* The for loop over registry.getAll(): the try/catch is inside the loop, so
\* the adapter after one whose processing threw is still processed.
nextAdapter(i, threw) == i + 1

\* The Store writes among the effects tr.
StoreWrites(tr) == Cardinality({j \in 1..Len(tr) : tr[j].op \in {"append", "summary"}})

NoScan == [agent |-> "none", act |-> [p \in Projects |-> 0]]
NoGone == [sid |-> <<>>, ends |-> 0, sums |-> 0]
NoTickLog == [a \in AdapterNames |-> "none"]
NotRead == [read |-> FALSE, events |-> <<>>]

NoArg == [none |-> TRUE]

\* ------------------------------------------------------------------- Init
\* The state after construction, apart from the arguments of a single call.
InitProgram ==
  /\ running = FALSE
  /\ pollTimer = FALSE
  /\ lastPollTime = 0
  /\ sessions = [k \in Keys |-> NoSession]
  /\ lastActive = [k \in Keys |-> FALSE]
  /\ events = [s \in SessionIds |-> <<>>]
  /\ summaries = [s \in SessionIds |-> NoSummary]
  /\ logs = [u \in Units |-> <<>>]
  /\ mtime = [u \in Units |-> 0]
  /\ newest = [k \in Keys |-> 0]
  /\ lastOffsets = [u \in Units |-> 0]
  /\ now = 1
  /\ inflight = <<>>
  /\ nSummaries = [s \in SessionIds |-> 0]
  /\ trace = <<>>
  /\ tickLog = NoTickLog
  /\ scan = NoScan
  /\ gone = [k \in Keys |-> NoGone]
  /\ faults = 0
  /\ ticks = 0
  /\ goodTick = [a \in AdapterNames |-> 0]
  /\ file = [u \in Units |-> <<>>]
  /\ fileOffsets = [u \in Units |-> 0]
  /\ decodedTimes = [u \in Units |-> [i \in 1..MaxChars |-> 0]]
  /\ seenLen = [u \in Units |-> -1]
  /\ unchangedReads = [u \in Units |-> 0]
  /\ rereadEvents = [u \in Units |-> 0]
  /\ calls = 0
  /\ disk = <<>>
  /\ appended = <<>>
  /\ readBack = NotRead
  /\ result = NoArg
  /\ applied = FALSE

Init == InitProgram /\ arg = NoArg

\* ---------------------------------------------------------------- actions
LinesWritten ==
  LET us == SetToSeq(Units) IN SeqSum([i \in 1..Len(us) |-> Len(logs[us[i]])])

\* The log units of a key that exist: an agent creates them one after another.
UnitsCreated(k) == Cardinality({u \in Units : u[1] = k[1] /\ u[2] = k[2] /\ logs[u] # <<>>})

\* The clock readings the next watcher activity can see: one timer period
\* later, or, after the process was stalled (a suspended machine), more than
\* the liveness window later.
LaterClock == {now + 1, now + LivenessWindow + 1}

\* An agent appends a line to one of its log units, or to a new one, which is
\* then the key's most recently modified. The watcher looks at the
\* logs only in pollAll, once per adapter and tick, so a line written during
\* a tick is seen as one written just before or just after it.
WriteLog ==
  /\ inflight = <<>>
  /\ LinesWritten < MaxLines
  /\ \E u \in Units : \E kind \in LineKinds(UnitAdapter(u)) :
       \E ts \in (IF UnitAdapter(u) = "claude" THEN {PastTs, FutureTs} ELSE {PastTs}) :
         /\ u[3] <= UnitsCreated(sessionKey(u[1], u[2])) + 1
         /\ logs' = [logs EXCEPT ![u] = Append(@, [kind |-> kind, ts |-> ts])]
         /\ mtime' = [mtime EXCEPT ![u] = now]
         /\ newest' = [newest EXCEPT ![sessionKey(u[1], u[2])] = u[3]]
  /\ UNCHANGED <<running, pollTimer, lastPollTime, sessions, lastActive, events,
                 summaries, lastOffsets, now, inflight, nSummaries, trace,
                 tickLog, scan, gone, faults, ticks, goodTick>>
  /\ UNCHANGED <<avars, svars, fvars>>

\* countSessionEvents for the session detected for key k at time t: what
\* poll(cwd, 0) returned is counted, and nothing of it is appended to the Store.
countedSession(k, n, threw, t) ==
  LET a == k[1]
      p == k[2]
      sid == <<a, p, n>>
      evs == pollEvents(a, {p}, 0, t)
      matched == SelectSeq(evs, LAMBDA e : e.sessionId = sid)
      edits == SelectSeq(matched, LAMBDA e : e.type = "file_edit")
  IN IF threw THEN TrackedSession(a, sid, t, p)
     ELSE [TrackedSession(a, sid, t, p) EXCEPT
             !.eventCount = Len(matched),
             !.files = [i \in 1..Len(edits) |-> FilePath]]

\* detectExistingSessions and countSessionEvents, as start awaits them.
\* acts is what each adapter's getAllActiveSessions returns; pf[k] > 0 says
\* that the poll for key k threw at the pf[k]-th unit it visited.
DetectAndCount ==
  /\ \E t \in LaterClock :
     \E acts \in {f \in [AdapterNames -> [Projects -> 0..UnitsPerProject]] :
                    \A a \in AdapterNames : f[a] \in ActiveChoices(a, t)} :
     \E pf \in [Keys -> 0..UnitsPerProject] :
       LET failed == {k \in Keys : pf[k] # 0} IN
       /\ \A k \in failed : /\ pollCanThrow(k[1])
                            /\ acts[k[1]][k[2]] # 0
                            /\ pf[k] <= Len(walk(k[1], {k[2]}, 0))
       /\ faults + Cardinality(failed) <= MaxFaults
       /\ faults' = faults + Cardinality(failed)
       /\ now' = t
       /\ sessions' = [k \in Keys |->
                         IF acts[k[1]][k[2]] # 0
                         THEN countedSession(k, acts[k[1]][k[2]], pf[k] # 0, t)
                         ELSE sessions[k]]
       /\ lastActive' = [k \in Keys |-> acts[k[1]][k[2]] # 0 \/ lastActive[k]]
       /\ lastOffsets' =
            [u \in Units |->
               LET k == sessionKey(UnitAdapter(u), UnitProject(u)) IN
               IF acts[k[1]][k[2]] = 0 THEN lastOffsets[u]
               ELSE IF pf[k] = 0 THEN pollOffsets(k[1], {k[2]}, 0, lastOffsets)[u]
               ELSE pollOffsetsUntil(k[1], {k[2]}, 0, lastOffsets, pf[k])[u]]
  /\ lastPollTime' = now'
  /\ goodTick' = [a \in AdapterNames |-> now']
  /\ UNCHANGED <<events, summaries, logs, mtime, newest, inflight, nSummaries,
                 trace, tickLog, scan, gone, ticks>>
  /\ UNCHANGED <<avars, svars>>

\* LiveWatcher.start, run without another call in between: the guard,
\* detectExistingSessions, countSessionEvents, setInterval.
Start ==
  /\ ~running
  /\ running' = TRUE
  /\ DetectAndCount
  /\ pollTimer' = TRUE
  /\ UNCHANGED fvars

\* A faulty variant: the interval is not cleared.
StopKeepsTimer ==
  /\ running
  /\ running' = FALSE
  /\ trace' = <<>>
  /\ scan' = NoScan
  /\ UNCHANGED <<pollTimer, lastPollTime, sessions, lastActive, events, summaries,
                 logs, mtime, newest, lastOffsets, now, inflight, nSummaries,
                 tickLog, gone, faults, ticks, goodTick>>
  /\ UNCHANGED <<avars, svars, fvars>>

\* LiveWatcher.stop: the interval is cleared; the calls of pollAdapters in
\* flight are not touched. The histories of the adapter processed last start
\* afresh.
Stop ==
  /\ running
  /\ running' = FALSE
  /\ pollTimer' = FALSE
  /\ trace' = <<>>
  /\ scan' = NoScan
  /\ UNCHANGED <<lastPollTime, sessions, lastActive, events, summaries, logs,
                 mtime, newest, lastOffsets, now, inflight, nSummaries,
                 tickLog, gone, faults, ticks, goodTick>>
  /\ UNCHANGED <<avars, svars, fvars>>

\* The setInterval callback: pollAdapters begins (since is read, lastPollTime
\* is set, the first adapter's pollAll is called) if fewer than cap calls of
\* it are in flight, at one of the clock readings in clocks.
Fire(cap, clocks) ==
  /\ pollTimer
  /\ Len(inflight) < cap
  /\ ticks < MaxTicks
  /\ ticks' = ticks + 1
  /\ now' \in clocks
  /\ inflight' = Append(inflight, [ai |-> 1, since |-> lastPollTime, at |-> now',
                                   log |-> NoTickLog])
  /\ lastPollTime' = now'
  /\ trace' = <<>>
  /\ scan' = NoScan
  /\ UNCHANGED <<running, pollTimer, sessions, lastActive, events, summaries,
                 logs, mtime, newest, lastOffsets, nSummaries, tickLog, gone, faults,
                 goodTick>>
  /\ UNCHANGED <<avars, svars, fvars>>

\* In Spec the previous tick has finished when the timer fires.
TimerFire == Fire(1, LaterClock)

\* The timer fires one period after it last did, whether or not earlier
\* ticks have finished.
TimerFireSlow == Fire(MaxInFlight, {now + 1})

\* The i-th call in flight goes on to its next adapter, or returns.
Advance(i, how) ==
  LET ctx == inflight[i]
      a == Adapters[ctx.ai]
      nxt == [ctx EXCEPT !.ai = nextAdapter(ctx.ai, how = "threw"), !.log[a] = how]
  IN /\ goodTick' = IF how = "ok" THEN [goodTick EXCEPT ![a] = ctx.at] ELSE goodTick
     /\ IF nxt.ai > Len(Adapters)
        THEN /\ inflight' = SubSeq(inflight, 1, i - 1) \o SubSeq(inflight, i + 1, Len(inflight))
             /\ tickLog' = nxt.log
        ELSE /\ inflight' = [inflight EXCEPT ![i] = nxt]
             /\ UNCHANGED tickLog

CountEffects(tr, op, type, sid) ==
  Cardinality({j \in 1..Len(tr) : tr[j].op = op /\ tr[j].type = type /\ tr[j].sessionId = sid})

\* gone after adapter a was processed with scan result act and effects tr.
goneAfter(a, act, tr) ==
  [k \in Keys |->
     IF k[1] # a THEN gone[k]
     ELSE IF act[k[2]] # 0 THEN NoGone
     ELSE LET g == IF gone[k] # NoGone THEN gone[k]
                   ELSE IF lastActive[k] /\ sessions[k] # NoSession
                        THEN [sid |-> sessions[k].sessionId, ends |-> 0, sums |-> 0]
                        ELSE NoGone
          IN IF g = NoGone THEN NoGone
             ELSE [g EXCEPT !.ends = @ + CountEffects(tr, "append", "session_end", g.sid),
                            !.sums = @ + CountEffects(tr, "summary", "summary", g.sid)]]

\* One pass of pollAdapters' loop body in the i-th call in flight: pollAll,
\* getAllActiveSessions, the transitions, the routing. fa >= 0: the (fa+1)-th
\* Store write of the pass throws.
ProcessTick(i) ==
  \E act \in ActiveChoices(Adapters[inflight[i].ai], now) :
  \E nGit \in 0..MaxGitSignals :
    LET ctx == inflight[i]
        a == Adapters[ctx.ai]
        evs == pollEvents(a, Projects, ctx.since, now)
        ok == processAdapter(WState, a, evs, act, nGit, now)
    IN \E fa \in (IF faults < MaxFaults THEN -1..(StoreWrites(ok.trace) - 1) ELSE {-1}) :
       LET st == IF fa = -1 THEN ok
                 ELSE processAdapter([WState EXCEPT !.failAt = fa], a, evs, act, nGit, now)
       IN
       /\ sessions' = st.sessions
       /\ lastActive' = st.lastActive
       /\ events' = st.events
       /\ summaries' = st.summaries
       /\ nSummaries' = st.nSummaries
       /\ trace' = st.trace
       /\ scan' = [agent |-> a, act |-> act]
       /\ gone' = goneAfter(a, act, st.trace)
       /\ lastOffsets' = pollOffsets(a, Projects, ctx.since, lastOffsets)
       /\ faults' = IF st.thrown THEN faults + 1 ELSE faults
       /\ Advance(i, IF st.thrown THEN "threw" ELSE "ok")

ProcessAdapter ==
  /\ \E i \in 1..Len(inflight) : ProcessTick(i)
  /\ UNCHANGED <<running, pollTimer, lastPollTime, logs, mtime, newest, now, ticks>>
  /\ UNCHANGED <<avars, svars, fvars>>

\* pollAll rejects in the i-th call in flight: readFile threw at the k-th
\* unit visited. The catch block skips the adapter for this tick.
PollAllThrows ==
  /\ faults < MaxFaults
  /\ \E i \in 1..Len(inflight) :
       LET a == Adapters[inflight[i].ai] IN
       /\ pollCanThrow(a)
       /\ \E k \in 1..Len(walk(a, Projects, inflight[i].since)) :
            lastOffsets' = pollOffsetsUntil(a, Projects, inflight[i].since, lastOffsets, k)
       /\ Advance(i, "threw")
  /\ faults' = faults + 1
  /\ trace' = <<>>
  /\ scan' = NoScan
  /\ UNCHANGED <<running, pollTimer, lastPollTime, sessions, lastActive, events,
                 summaries, logs, mtime, newest, now, nSummaries, gone, ticks>>
  /\ UNCHANGED <<avars, svars, fvars>>

Next == WriteLog \/ Start \/ TimerFire \/ ProcessAdapter \/ PollAllThrows

Spec == Init /\ [][Next]_vars

NextSlow == WriteLog \/ Start \/ TimerFireSlow \/ ProcessAdapter \/ PollAllThrows

SpecSlow == Init /\ [][NextSlow]_vars

\* The watcher is started once and stopped at any time.
StartOnce == lastPollTime = 0 /\ Start

NextStop == WriteLog \/ StartOnce \/ Stop \/ TimerFire \/ ProcessAdapter \/ PollAllThrows

SpecStop == Init /\ [][NextStop]_vars

\* ----------------------------------------- an adapter, character by character
\* The characters of a log unit: "{}" stands for a complete JSON message that
\* decodes to one event; any other line makes JSON.parse throw or decodes to
\* nothing, and parseClaudeLine / parseCodexLine return no event for it.
Chars == {"{", "}", "\n"}

\* A faulty variant of newOffset: the offset is not moved by a read.
staleOffset(content, lastOffset) == lastOffset

\* this.lastOffsets.set(filePath, content.length)
newOffset(content, lastOffset) == Len(content)

RECURSIVE split(_)
\* newContent.split('\n')
split(cs) ==
  IF \A i \in 1..Len(cs) : cs[i] # "\n" THEN <<cs>>
  ELSE LET i == CHOOSE i \in 1..Len(cs) : cs[i] = "\n" /\ \A j \in 1..(i - 1) : cs[j] # "\n"
       IN <<SubSeq(cs, 1, i - 1)>> \o split(SubSeq(cs, i + 1, Len(cs)))

\* The number of events a line decodes to; a blank line is skipped.
parseLine(line) == IF line = <<"{", "}">> THEN 1 ELSE 0

parseLines(cs) ==
  LET lines == split(cs) IN SeqSum([i \in 1..Len(lines) |-> parseLine(lines[i])])

\* What a sequence of reads works on.
AState == [offsets |-> fileOffsets, decodedTimes |-> decodedTimes, seenLen |-> seenLen,
           unchangedReads |-> unchangedReads, rereadEvents |-> rereadEvents]

\* readNewLines on unit u, character by character.
readNewChars(h, u) ==
  LET lastOffset == h.offsets[u]
      content == file[u]
      unchanged == h.seenLen[u] = Len(content)
      newContent == SubSeq(content, lastOffset + 1, Len(content))
      n == IF Len(content) <= lastOffset THEN 0 ELSE parseLines(newContent)
      h1 == [h EXCEPT !.seenLen[u] = Len(content),
                      !.unchangedReads[u] = IF unchanged THEN @ + 1 ELSE @,
                      !.rereadEvents[u] = IF unchanged THEN @ + n ELSE @]
  IN IF Len(content) <= lastOffset THEN h1
     ELSE [h1 EXCEPT !.offsets[u] = newOffset(content, lastOffset),
                     !.decodedTimes[u] =
                        [i \in 1..MaxChars |->
                           IF i > lastOffset /\ i <= Len(content) THEN @[i] + 1 ELSE @[i]]]

RECURSIVE readAll(_, _)
readAll(h, us) == IF us = <<>> THEN h ELSE readAll(readNewChars(h, Head(us)), Tail(us))

\* The units a poll or pollAll with argument snc reads.
fileWalk(a, P, snc) ==
  SetToSeq({u \in UnitsOf(a) : UnitProject(u) \in P /\ file[u] # <<>> /\ mtime[u] >= snc})

CharsWritten ==
  LET us == SetToSeq(Units) IN SeqSum([i \in 1..Len(us) |-> Len(file[us[i]])])

\* An agent appends a character to a log unit.
AppendChar ==
  /\ CharsWritten < MaxChars
  /\ \E u \in Units : \E c \in Chars :
       /\ \A v \in Units : (v[1] = u[1] /\ v[2] = u[2] /\ v[3] < u[3]) => file[v] # <<>>
       /\ file' = [file EXCEPT ![u] = Append(@, c)]
       /\ mtime' = [mtime EXCEPT ![u] = now]
  /\ UNCHANGED <<wvars, now, faults, svars, fvars, fileOffsets, decodedTimes, seenLen,
                 unchangedReads, rereadEvents, calls>>

\* A call that reads the units us, one after another.
Call(us) ==
  LET h == readAll(AState, us) IN
  /\ calls < MaxCalls
  /\ calls' = calls + 1
  /\ now' = now + 1
  /\ fileOffsets' = h.offsets
  /\ decodedTimes' = h.decodedTimes
  /\ seenLen' = h.seenLen
  /\ unchangedReads' = h.unchangedReads
  /\ rereadEvents' = h.rereadEvents
  /\ UNCHANGED <<wvars, mtime, faults, svars, fvars, file>>

\* adapter.poll(cwd, since)
Poll == \E a \in AdapterNames : \E p \in Projects : \E snc \in {0, now} : Call(fileWalk(a, {p}, snc))

\* adapter.pollAll(since)
PollAll == \E a \in AdapterNames : \E snc \in {0, now} : Call(fileWalk(a, Projects, snc))

NextAdapter == AppendChar \/ Poll \/ PollAll

SpecAdapter == Init /\ [][NextAdapter]_vars

\* ------------------------------------------------- the Store's event log
\* JavaScript values that are not numbers of the model: NaN, which
\* parseClaudeLine's new Date(msg.timestamp).getTime() yields for a timestamp
\* field that is not a date, and null.
NaN == -1
Null == -2

\* The events appended in SpecStore.
StoreEvents == [type : {"file_edit", "session_end"}, timestamp : {1, 2, NaN}]

\* JSON.stringify of a number: NaN is written as null.
stringifyNumber(n) == IF n = 1 THEN "1" ELSE IF n = 2 THEN "2" ELSE "null"
\* JSON.parse of what stringifyNumber wrote.
parseNumber(tok) == IF tok = "1" THEN 1 ELSE IF tok = "2" THEN 2 ELSE Null

\* JSON.stringify(event) + '\n'
stringify(ev) == <<"{", ev.type, stringifyNumber(ev.timestamp), "}", "\n">>

\* JSON.parse accepts the line.
parses(line) ==
  /\ Len(line) = 4
  /\ line[1] = "{"
  /\ line[2] \in {"file_edit", "session_end"}
  /\ line[3] \in {"1", "2", "null"}
  /\ line[4] = "}"

\* Store.getSessionEvents: the non-blank lines parsed; [] if one does not parse.
getSessionEvents(d) ==
  LET lines == SelectSeq(split(d), LAMBDA l : l # <<>>) IN
  IF \A i \in 1..Len(lines) : parses(lines[i])
  THEN [i \in 1..Len(lines) |-> [type |-> lines[i][2], timestamp |-> parseNumber(lines[i][3])]]
  ELSE <<>>

\* Store.appendEvent returns.
AppendEvent ==
  /\ Len(appended) + faults < MaxAppends
  /\ \E ev \in StoreEvents :
       /\ disk' = disk \o stringify(ev)
       /\ appended' = Append(appended, ev)
  /\ readBack' = NotRead
  /\ UNCHANGED <<wvars, mtime, now, faults, avars, fvars>>

\* Store.appendEvent throws (disk full) after writeFile wrote the first k
\* characters of the line.
AppendEventFails ==
  /\ Len(appended) + faults < MaxAppends
  /\ faults < MaxFaults
  /\ faults' = faults + 1
  /\ \E ev \in StoreEvents : \E k \in 0..(Len(stringify(ev)) - 1) :
       disk' = disk \o SubSeq(stringify(ev), 1, k)
  /\ readBack' = NotRead
  /\ UNCHANGED <<wvars, mtime, now, avars, fvars, appended>>

\* Store.getSessionEvents is called.
GetSessionEvents ==
  /\ ~readBack.read
  /\ readBack' = [read |-> TRUE, events |-> getSessionEvents(disk)]
  /\ UNCHANGED <<wvars, mtime, now, faults, avars, fvars, disk, appended>>

NextStore == AppendEvent \/ AppendEventFails \/ GetSessionEvents

SpecStore == Init /\ [][NextStore]_vars

\* ------------------------------------------------------------------ SpecSeal
\* sealSession is a public method: it is called on any key, between ticks.
\* arg counts the calls; result is the key and what the call returned.
InitSeal == InitProgram /\ arg = [calls |-> 0]

SealCall ==
  /\ arg.calls < MaxSealCalls
  /\ inflight = <<>>
  /\ \E key \in Keys : \E nGit \in 0..MaxGitSignals :
       LET ok == sealSession(WState, key, nGit, now) IN
       \E fa \in (IF faults < MaxFaults THEN -1..(StoreWrites(ok.trace) - 1) ELSE {-1}) :
         LET st == IF fa = -1 THEN ok
                   ELSE sealSession([WState EXCEPT !.failAt = fa], key, nGit, now)
         IN /\ sessions' = st.sessions
            /\ lastActive' = st.lastActive
            /\ events' = st.events
            /\ summaries' = st.summaries
            /\ nSummaries' = st.nSummaries
            /\ trace' = st.trace
            /\ faults' = IF st.thrown THEN faults + 1 ELSE faults
            /\ result' = [key |-> key,
                          returned |-> IF st.thrown THEN "rejected"
                                       ELSE IF sessions[key] = NoSession THEN "null"
                                       ELSE "summary"]
  /\ arg' = [calls |-> arg.calls + 1]
  /\ applied' = TRUE
  /\ scan' = NoScan
  /\ UNCHANGED <<running, pollTimer, lastPollTime, logs, mtime, newest, lastOffsets,
                 now, inflight, tickLog, gone, ticks, goodTick>>
  /\ UNCHANGED <<avars, svars>>

\* The timer fires one period after the watcher was last busy.
TimerFireRegular == Fire(1, {now + 1})

NextSeal ==
  WriteLog \/ Start \/ TimerFireRegular \/ ProcessAdapter \/ PollAllThrows \/ SealCall

SpecSeal == InitSeal /\ [][NextSeal]_vars

\* --------------------------------------------------------------- SpecOutcome
\* The outcome of a seal, for every content of the session's event file: a
\* test_result event carries the counts of one test run; an event of another
\* type may carry anything, here the same two fields.
StoredEvents ==
  [type : {"test_result", "tool_call"}, passed : 0..MaxCount, failed : 0..MaxCount]

RECURSIVE SeqsUpTo(_, _)
SeqsUpTo(S, n) ==
  IF n = 0 THEN {<<>>}
  ELSE LET shorter == SeqsUpTo(S, n - 1)
       IN shorter \cup {Append(q, x) : q \in {r \in shorter : Len(r) = n - 1}, x \in S}

InitOutcome ==
  /\ InitProgram
  /\ arg \in [events : SeqsUpTo(StoredEvents, MaxStored)]

SealOutcome ==
  /\ ~applied
  /\ applied' = TRUE
  /\ result' = [outcome |-> outcome(arg.events)]
  /\ UNCHANGED <<wvars, mtime, now, faults, avars, svars, arg>>

NextOutcome == SealOutcome

SpecOutcome == InitOutcome /\ [][NextOutcome]_vars

\* ---------------------------------------------------------------- SpecIgnore
\* createIgnoreMatcher and the matcher it returns. A string is the sequence
\* of its characters. The lines of the exclude files and the candidate paths
\* are drawn from two pools, which hold the spellings the rule syntax
\* distinguishes.
HARDCODED_IGNORES ==
  << <<".", "s", "l", "a", "g", "e", "n", "t", "/">>,
     <<".", "g", "i", "t", "/">>,
     <<"n", "o", "d", "e", "_", "m", "o", "d", "u", "l", "e", "s", "/">>,
     <<".", "D", "S", "_", "S", "t", "o", "r", "e">> >>

LogRule == <<"*", ".", "l", "o", "g">>
KeepRule == <<"!", "k", "e", "e", "p", ".", "l", "o", "g">>
BuildRule == <<"b", "u", "i", "l", "d", "/">>
CommentLine == <<"#", "x">>
BlankLine == <<" ">>
PaddedRule == <<" ", "*", ".", "l", "o", "g", " ">>
AnchoredRule == <<"/", "b", "u", "i", "l", "d">>
DeepRule == <<"*", "*", "/", "k", "e", "e", "p", ".", "l", "o", "g">>
GitKeepRule == <<"!", ".", "g", "i", "t", "/">>
OneCharRule == <<"b", "?", "i", "l", "d">>
AllRule == <<"*", "*">>

LinePool == {LogRule, KeepRule, BuildRule, CommentLine, BlankLine, PaddedRule, AnchoredRule, DeepRule, GitKeepRule, OneCharRule, AllRule}

DebugLog == <<"d", "e", "b", "u", "g", ".", "l", "o", "g">>
KeepLog == <<"k", "e", "e", "p", ".", "l", "o", "g">>
BuildOutput == <<"b", "u", "i", "l", "d", "/", "o", "u", "t", "p", "u", "t", ".", "j", "s">>
SrcBuild == <<"s", "r", "c", "/", "b", "u", "i", "l", "d", "/", "a">>
XBuild == <<"x", "b", "u", "i", "l", "d", "/", "a">>
GitConfig == <<".", "g", "i", "t", "/", "c", "o", "n", "f", "i", "g">>
DeepKeep == <<"a", "/", "b", "/", "k", "e", "e", "p", ".", "l", "o", "g">>
Readme == <<"R", "E", "A", "D", "M", "E">>
Bold == <<"b", "o", "l", "d">>

PathPool == {DebugLog, KeepLog, BuildOutput, SrcBuild, XBuild, GitConfig, DeepKeep, Readme, Bold}

\* What readFileSync finds: a file that cannot be read, or its lines.
Missing == [readable |-> FALSE, lines |-> <<>>]
FileOf(lines) == [readable |-> TRUE, lines |-> lines]

\* String.prototype.trim, for the white space the pools use.
WhiteSpace == {" ", "\n"}

RECURSIVE trim(_)
trim(str) ==
  IF str = <<>> THEN str
  ELSE IF Head(str) \in WhiteSpace THEN trim(Tail(str))
  ELSE IF str[Len(str)] \in WhiteSpace THEN trim(SubSeq(str, 1, Len(str) - 1))
  ELSE str

startsWith(str, c) == str # <<>> /\ Head(str) = c
endsWith(str, c) == str # <<>> /\ str[Len(str)] = c

\* globToRegex: the body of the regular expression, as the sequence of its
\* parts. dirs is (?:.+/)?, any is .*, star is [^/]*, one is [^/], and a
\* literal stands for itself.
RECURSIVE globBody(_, _)
globBody(pattern, i) ==
  IF i > Len(pattern) THEN <<>>
  ELSE LET ch == pattern[i]
           nxt == IF i + 1 <= Len(pattern) THEN pattern[i + 1] ELSE ""
           nxt2 == IF i + 2 <= Len(pattern) THEN pattern[i + 2] ELSE ""
       IN IF ch = "*" /\ nxt = "*"
          THEN IF nxt2 = "/" THEN <<[part |-> "dirs", ch |-> ""]>> \o globBody(pattern, i + 3)
               ELSE <<[part |-> "any", ch |-> ""]>> \o globBody(pattern, i + 2)
          ELSE IF ch = "*" THEN <<[part |-> "star", ch |-> ""]>> \o globBody(pattern, i + 1)
          ELSE IF ch = "?" THEN <<[part |-> "one", ch |-> ""]>> \o globBody(pattern, i + 1)
          ELSE <<[part |-> "lit", ch |-> ch]>> \o globBody(pattern, i + 1)

globToRegex(pattern, anchored) == [anchored |-> anchored, body |-> globBody(pattern, 1)]

parsePattern(raw) ==
  LET negated == startsWith(raw, "!")
      p1 == IF negated THEN Tail(raw) ELSE raw
      dirOnly == endsWith(p1, "/")
      p2 == IF dirOnly THEN SubSeq(p1, 1, Len(p1) - 1) ELSE p1
      anchored == startsWith(p2, "/")
      p3 == IF anchored THEN Tail(p2) ELSE p2
  IN [negated |-> negated, dirOnly |-> dirOnly, anchored |-> anchored,
      regex |-> globToRegex(p3, anchored), raw |-> raw]

\* The positions of path a match of one part can end at when it starts at
\* one of the positions in from (a position is the index of the next
\* character to read).
afterPart(part, path, from) ==
  LET n == Len(path) IN
  CASE part.part = "lit" -> {i + 1 : i \in {j \in from : j <= n /\ path[j] = part.ch}}
    [] part.part = "one" -> {i + 1 : i \in {j \in from : j <= n /\ path[j] # "/"}}
    [] part.part = "star" ->
         {e \in 1..(n + 1) : \E i \in from : i <= e /\ \A j \in i..(e - 1) : path[j] # "/"}
    [] part.part = "any" -> {e \in 1..(n + 1) : \E i \in from : i <= e}
    [] part.part = "dirs" ->
         from \cup {e \in 1..(n + 1) : \E i \in from : i + 1 < e /\ path[e - 1] = "/"}

RECURSIVE afterBody(_, _, _)
afterBody(body, path, from) ==
  IF body = <<>> THEN from
  ELSE afterBody(Tail(body), path, afterPart(Head(body), path, from))

\* RegExp.prototype.test: ^body(?:/|$) when anchored, (?:^|/)body(?:/|$)
\* otherwise.
test(regex, path) ==
  LET n == Len(path)
      starts == IF regex.anchored THEN {1}
                ELSE {1} \cup {i + 1 : i \in {j \in 1..n : path[j] = "/"}}
  IN \E e \in afterBody(regex.body, path, starts) : e = n + 1 \/ path[e] = "/"

matchPattern(path, pattern) == test(pattern.regex, path)

\* The rules of one exclude file: none when it cannot be read, else one for
\* each line that after trimming is neither empty nor a comment.
RECURSIVE lineRules(_)
lineRules(lines) ==
  IF lines = <<>> THEN <<>>
  ELSE LET trimmed == trim(Head(lines)) IN
       (IF trimmed = <<>> \/ startsWith(trimmed, "#") THEN <<>>
        ELSE <<parsePattern(trimmed)>>) \o lineRules(Tail(lines))

fileRules(content) == IF content.readable THEN lineRules(content.lines) ELSE <<>>

patterns(gitignore, exclude) ==
  [i \in 1..Len(HARDCODED_IGNORES) |-> parsePattern(HARDCODED_IGNORES[i])]
    \o fileRules(gitignore) \o fileRules(exclude)

\* A faulty variant: the first rule that matches decides.
RECURSIVE ignoredFirstMatch(_, _, _)
ignoredFirstMatch(pats, relativePath, ignored) ==
  IF pats = <<>> THEN ignored
  ELSE IF matchPattern(relativePath, Head(pats)) THEN ~Head(pats).negated
  ELSE ignoredFirstMatch(Tail(pats), relativePath, ignored)

\* The loop of the returned matcher, from the value ignored has so far.
RECURSIVE ignoredAfter(_, _, _)
ignoredAfter(pats, relativePath, ignored) ==
  IF pats = <<>> THEN ignored
  ELSE LET pattern == Head(pats) IN
       ignoredAfter(Tail(pats), relativePath,
                    IF pattern.negated
                    THEN (IF matchPattern(relativePath, pattern) THEN FALSE ELSE ignored)
                    ELSE (IF matchPattern(relativePath, pattern) THEN TRUE ELSE ignored))

createIgnoreMatcher(gitignore, exclude, relativePath) ==
  ignoredAfter(patterns(gitignore, exclude), relativePath, FALSE)

FileContents(n) == {Missing} \cup {FileOf(lines) : lines \in SeqsUpTo(LinePool, n)}

InitIgnore ==
  /\ InitProgram
  /\ arg \in [gitignore : FileContents(MaxGitignoreLines),
              exclude : FileContents(MaxExcludeLines),
              relativePath : PathPool]

Match ==
  /\ ~applied
  /\ applied' = TRUE
  /\ result' = [patterns |-> patterns(arg.gitignore, arg.exclude),
                ignored |-> createIgnoreMatcher(arg.gitignore, arg.exclude, arg.relativePath)]
  /\ UNCHANGED <<wvars, mtime, now, faults, avars, svars, arg>>

NextIgnore == Match

SpecIgnore == InitIgnore /\ [][NextIgnore]_vars

\* ---------------------------------------------------------------- SpecDecode
\* ClaudeAdapter.decodeDirName. Claude names the log directory of a project
\* after its path, every separator replaced by '-'. A path is the sequence
\* of its characters; the file system is the set of the paths that exist on it.
SegmentNames == {<<"a">>, <<"b">>, <<"a", "-", "b">>, <<"-", "a">>}

RECURSIVE PathsOfDepth(_)
PathsOfDepth(n) ==
  IF n = 0 THEN {<<>>}
  ELSE {p \o <<"/">> \o name : p \in PathsOfDepth(n - 1), name \in SegmentNames}

AbsolutePaths == UNION {PathsOfDepth(n) : n \in 1..MaxDepth}

\* The directories above a path.
Ancestors(p) ==
  {SubSeq(p, 1, i - 1) : i \in {j \in 2..Len(p) : p[j] = "/"}}

\* What Claude does to the project path.
encodeDirName(p) == [i \in 1..Len(p) |-> IF p[i] = "/" THEN "-" ELSE p[i]]

\* String.prototype.split and Array.prototype.join, on one character.
RECURSIVE splitOn(_, _)
splitOn(str, sep) ==
  IF \A i \in 1..Len(str) : str[i] # sep THEN <<str>>
  ELSE LET i == CHOOSE i \in 1..Len(str) : str[i] = sep /\ \A j \in 1..(i - 1) : str[j] # sep
       IN <<SubSeq(str, 1, i - 1)>> \o splitOn(SubSeq(str, i + 1, Len(str)), sep)

RECURSIVE joinWith(_, _)
joinWith(strs, sep) ==
  IF strs = <<>> THEN <<>>
  ELSE IF Len(strs) = 1 THEN strs[1]
  ELSE strs[1] \o <<sep>> \o joinWith(Tail(strs), sep)

\* statSync(candidate) returns: the path names something on the file system. An
\* empty component (a doubled or trailing separator) names nothing new.
statSync(candidate, fsys) ==
  LET comps == SelectSeq(splitOn(candidate, "/"), LAMBDA c : c # <<>>)
      named == IF comps = <<>> THEN <<>> ELSE <<"/">> \o joinWith(comps, "/")
  IN named = <<>> \/ named \in fsys

\* A faulty variant: the shortest run that exists is taken.
foundShortest(parts, i, path, fsys) ==
  LET hits == {j \in (i + 1)..Len(parts) :
                 statSync(path \o <<"/">> \o joinWith(SubSeq(parts, i + 1, j), "-"), fsys)}
  IN IF hits = {} THEN 0 ELSE CHOOSE j \in hits : \A k \in hits : j <= k

\* The for loop: the largest j whose candidate exists, 0 when none does
\* (parts is indexed from 1 here, so the run is parts[i+1..j]).
found(parts, i, path, fsys) ==
  LET hits == {j \in (i + 1)..Len(parts) :
                 statSync(path \o <<"/">> \o joinWith(SubSeq(parts, i + 1, j), "-"), fsys)}
  IN IF hits = {} THEN 0 ELSE CHOOSE j \in hits : \A k \in hits : k <= j

RECURSIVE decodeFromSkips(_, _, _, _)
\* A faulty variant: after a run that exists, the walk goes on one token too far.
decodeFromSkips(parts, i, path, fsys) ==
  IF i >= Len(parts) THEN path
  ELSE LET j == found(parts, i, path, fsys) IN
       IF j # 0
       THEN decodeFromSkips(parts, j + 1,
                            path \o <<"/">> \o joinWith(SubSeq(parts, i + 1, j), "-"), fsys)
       ELSE decodeFromSkips(parts, i + 1, path \o <<"/">> \o parts[i + 1], fsys)

RECURSIVE decodeFrom(_, _, _, _)
decodeFrom(parts, i, path, fsys) ==
  IF i >= Len(parts) THEN path
  ELSE LET j == found(parts, i, path, fsys) IN
       IF j # 0
       THEN decodeFrom(parts, j, path \o <<"/">> \o joinWith(SubSeq(parts, i + 1, j), "-"), fsys)
       ELSE decodeFrom(parts, i + 1, path \o <<"/">> \o parts[i + 1], fsys)

decodeDirName(encoded, fsys) ==
  IF encoded = <<>> \/ Head(encoded) # "-"
  THEN [i \in 1..Len(encoded) |-> IF encoded[i] = "-" THEN "/" ELSE encoded[i]]
  ELSE decodeFrom(splitOn(Tail(encoded), "-"), 0, <<>>, fsys)

\* The project's directory exists, with the directories above it, and so do
\* up to MaxOtherDirs other directories, with those above them.
RECURSIVE SubsetsUpTo(_, _)
SubsetsUpTo(S, n) ==
  IF n = 0 THEN {{}}
  ELSE LET smaller == SubsetsUpTo(S, n - 1)
       IN smaller \cup {T \cup {x} : T \in smaller, x \in S}

InitDecode ==
  /\ InitProgram
  /\ \E p \in AbsolutePaths : \E others \in SubsetsUpTo(AbsolutePaths, MaxOtherDirs) :
       arg = [path |-> p,
              disk |-> {p} \cup Ancestors(p) \cup others
                         \cup UNION {Ancestors(o) : o \in others}]

Decode ==
  /\ ~applied
  /\ applied' = TRUE
  /\ result' = [path |-> decodeDirName(encodeDirName(arg.path), arg.disk)]
  /\ UNCHANGED <<wvars, mtime, now, faults, avars, svars, arg>>

NextDecode == Decode

SpecDecode == InitDecode /\ [][NextDecode]_vars

\* ----------------------------------------------------------------- SpecPrune
\* Store.pruneOldData. A directory is the sequence of its files in readdir
\* order, each file standing for its modification time; a file written in
\* the millisecond of the call has the clock's reading, one with a wrong
\* clock a later one.
DayMs == 2
InfiniteDays == 100

Dirs == {[exists |-> FALSE, files |-> <<>>]}
          \cup {[exists |-> TRUE, files |-> fs] : fs \in SeqsUpTo(0..MaxMtime, MaxFiles)}

\* One directory of the loop over ['events', 'sessions']: the files left and
\* the number deleted. failAt > 0: stat or unlink throws at the failAt-th
\* file, and the catch block ends the directory.
RECURSIVE pruneFiles(_, _, _, _)
pruneFiles(files, i, cutoff, failAt) ==
  IF i > Len(files) \/ i = failAt THEN [left |-> SubSeq(files, i, Len(files)), deleted |-> 0]
  ELSE LET rest == pruneFiles(files, i + 1, cutoff, failAt) IN
       IF files[i] < cutoff
       THEN [rest EXCEPT !.deleted = @ + 1]
       ELSE [rest EXCEPT !.left = <<files[i]>> \o @]

pruneDir(dir, cutoff, failAt) ==
  IF ~dir.exists THEN [left |-> <<>>, deleted |-> 0]
  ELSE pruneFiles(dir.files, 1, cutoff, failAt)

pruneOldData(maxAgeDays, t, events0, sessions0, failEvents, failSessions) ==
  LET cutoff == t - maxAgeDays * DayMs
      e == pruneDir(events0, cutoff, failEvents)
      ss == pruneDir(sessions0, cutoff, failSessions)
  IN [eventsDeleted |-> e.deleted, sessionsDeleted |-> ss.deleted,
      events |-> e.left, sessions |-> ss.left]

InitPrune ==
  /\ InitProgram
  /\ \E ev \in Dirs : \E se \in Dirs :
     \E fe \in 0..Len(ev.files) : \E fse \in 0..Len(se.files) :
       /\ (fe = 0 \/ fse = 0)
       /\ arg \in [maxAgeDays : {0, 1, InfiniteDays}, now : {PruneClock},
                   events : {ev}, sessions : {se},
                   failEvents : {fe}, failSessions : {fse}]

Prune ==
  /\ ~applied
  /\ applied' = TRUE
  /\ result' = pruneOldData(arg.maxAgeDays, arg.now, arg.events, arg.sessions,
                            arg.failEvents, arg.failSessions)
  /\ UNCHANGED <<wvars, mtime, now, faults, avars, svars, arg>>

NextPrune == Prune

SpecPrune == InitPrune /\ [][NextPrune]_vars

\* -------------------------------------------------------------- SpecRegistry
\* AdapterRegistry.detectActive for one project. The registry holds the
\* adapters register was called with, in that order; each is given by what
\* its detectActivity does for the project: resolve to true, resolve to
\* false, or reject.
Registries == SeqsUpTo({"true", "false", "rejects"}, MaxAdapters)

\* The loop from the i-th adapter on, with the results pushed so far. An
\* await of a promise that rejects throws, and nothing in detectActive
\* catches it: the call rejects.
RECURSIVE detectFrom(_, _, _)
detectFrom(adapters, i, results) ==
  IF i > Len(adapters) THEN [rejected |-> FALSE, adapters |-> results]
  ELSE IF adapters[i] = "rejects" THEN [rejected |-> TRUE, adapters |-> <<>>]
  ELSE detectFrom(adapters, i + 1,
                  IF adapters[i] = "true" THEN Append(results, i) ELSE results)

detectActive(adapters) == detectFrom(adapters, 1, <<>>)

InitRegistry ==
  /\ InitProgram
  /\ arg \in [adapters : Registries]

DetectActive ==
  /\ ~applied
  /\ applied' = TRUE
  /\ result' = detectActive(arg.adapters)
  /\ UNCHANGED <<wvars, mtime, now, faults, avars, svars, arg>>

NextRegistry == DetectActive

SpecRegistry == InitRegistry /\ [][NextRegistry]_vars

\* ---------------------------------------------------------------- SpecEnrich
\* SignalEnricher.checkGitSignals and detectManualEdits, and the seal that
\* calls them. git is what execSync('git log ...') does: it throws (git is
\* not installed, the directory is not a repository, the command exits with
\* an error, the timeout expires) or returns the subjects of the last
\* commits, each given by the words it holds. An agent file is given by what
\* stat does for it: throw, or return its modification time.
MinuteMs == 1

GitFailures == {"git missing", "not a repository", "command failed", "timed out"}
\* A subject is given by which of the words revert, fixup and squash it holds
\* ("squash": a commit made by git commit --squash, "squash! ...").
Subjects == {"revert", "fixup", "revert fixup", "squash", "other"}

GitRuns ==
  {[throws |-> TRUE, how |-> h, log |-> <<>>] : h \in GitFailures}
    \cup {[throws |-> FALSE, how |-> "ok", log |-> l] : l \in SeqsUpTo(Subjects, MaxLogLines)}

AgentFiles ==
  {[throws |-> TRUE, mtimeMs |-> 0]} \cup {[throws |-> FALSE, mtimeMs |-> m] : m \in 0..MaxMtime}

\* The signals one subject line gives.
RECURSIVE lineSignals(_)
lineSignals(log) ==
  IF log = <<>> THEN <<>>
  ELSE (IF Head(log) \in {"revert", "revert fixup"} THEN <<"revert">> ELSE <<>>)
         \o (IF Head(log) \in {"fixup", "revert fixup"} THEN <<"fixup">> ELSE <<>>)
         \o lineSignals(Tail(log))

\* A faulty variant: the failure of the command is not caught.
checkGitSignalsUncaught(git) ==
  IF git.throws THEN [raised |-> TRUE, events |-> <<>>]
  ELSE [raised |-> FALSE, events |-> lineSignals(git.log)]

checkGitSignals(git) ==
  IF git.throws THEN [raised |-> FALSE, events |-> <<>>]
  ELSE [raised |-> FALSE, events |-> lineSignals(git.log)]

\* The indices of the agent files a manual_edit signal is pushed for.
RECURSIVE manualFrom(_, _, _)
manualFrom(agentFiles, i, afterTimestamp) ==
  IF i > Len(agentFiles) THEN <<>>
  ELSE (IF ~agentFiles[i].throws /\ agentFiles[i].mtimeMs > afterTimestamp
        THEN <<i>> ELSE <<>>) \o manualFrom(agentFiles, i + 1, afterTimestamp)

detectManualEdits(agentFiles, afterTimestamp) ==
  [raised |-> FALSE, events |-> manualFrom(agentFiles, 1, afterTimestamp)]

InitEnrich ==
  /\ InitProgram
  /\ arg \in [git : GitRuns, agentFiles : SeqsUpTo(AgentFiles, MaxFiles),
              key : Keys, now : {PruneClock}]

\* sealSession for a tracked session of arg.key, with no failure of the Store.
SealEnriched ==
  /\ ~applied
  /\ applied' = TRUE
  /\ LET sid == <<arg.key[1], arg.key[2], 1>>
         s0 == [WState EXCEPT !.sessions[arg.key] =
                                 TrackedSession(arg.key[1], sid, PastTs, arg.key[2])]
         gitSignals == checkGitSignals(arg.git)
         manualEdits == detectManualEdits(arg.agentFiles, arg.now - MinuteMs)
         raised == gitSignals.raised \/ manualEdits.raised
         st == IF raised THEN s0
               ELSE sealSession(s0, arg.key,
                                Len(gitSignals.events) + Len(manualEdits.events), arg.now)
     IN result' = [raised |-> raised, gitSignals |-> gitSignals.events,
                   manualEdits |-> manualEdits.events,
                   summary |-> st.summaries[sid], appended |-> Len(st.events[sid])]
  /\ UNCHANGED <<wvars, mtime, now, faults, avars, svars, arg>>

NextEnrich == SealEnriched

SpecEnrich == InitEnrich /\ [][NextEnrich]_vars

\* ------------------------------------------------------------------- SpecCli
\* isCliRunning (ClaudeAdapter and CodexAdapter have the same body). The
\* process table is a sequence of candidates, the processes pgrep -x finds:
\* each has a working directory, and lsof on it either prints that directory
\* or the execSync of the pipeline throws (a timeout).
ProjectDir == <<"/", "a">>
SpacedDir == <<"/", "a", " ">>
OtherDir == <<"/", "b">>
WorkingDirs == {ProjectDir, SpacedDir, OtherDir}

Candidates == [inspect : {"ok", "throws"}, cwd : WorkingDirs]

\* How execSync('pgrep -x ...') ends: the tool is not installed, it exits
\* with an error, it exceeds the 3000 ms timeout, or it prints the PIDs.
PgrepOutcomes == {"missing", "fails", "timeout", "ok"}

\* The PID of the i-th candidate, and what pgrep prints for n candidates: one
\* PID per line. With no candidate pgrep exits 1 and execSync throws.
Digits == <<"1", "2", "3">>
pidOf(i) == <<Digits[i]>>
\* The candidate a PID names.
procOf(table, pid) == table.procs[CHOOSE i \in 1..Len(Digits) : pidOf(i) = pid]
RECURSIVE pgrepOutput(_, _)
pgrepOutput(i, n) ==
  IF i > n THEN <<>> ELSE pidOf(i) \o <<"\n">> \o pgrepOutput(i + 1, n)

pgrepThrows(table) == table.pgrep # "ok" \/ table.procs = <<>>

\* .trim().split('\n').filter(Boolean)
pidsOf(output) == SelectSeq(split(trim(output)), LAMBDA l : l # <<>>)

\* What the lsof pipeline prints for a PID: the directory and a newline.
lsofOutput(table, pid) == procOf(table, pid).cwd \o <<"\n">>
lsofThrows(table, pid) == procOf(table, pid).inspect = "throws"

\* A faulty variant: the try around the inspection of one PID is missing, so
\* its throw ends the loop in the outer catch.
RECURSIVE inspectFromUncaught(_, _, _, _, _)
inspectFromUncaught(table, cwd, pids, i, seen) ==
  IF i > Len(pids) THEN [value |-> FALSE, threw |-> FALSE, inspected |-> seen]
  ELSE IF lsofThrows(table, pids[i])
       THEN [value |-> FALSE, threw |-> FALSE, inspected |-> Append(seen, pids[i])]
  ELSE IF trim(lsofOutput(table, pids[i])) = cwd
       THEN [value |-> TRUE, threw |-> FALSE, inspected |-> Append(seen, pids[i])]
  ELSE inspectFromUncaught(table, cwd, pids, i + 1, Append(seen, pids[i]))

\* for (const pid of pids) from the i-th PID on; seen is the PIDs inspected
\* so far.
RECURSIVE inspectFrom(_, _, _, _, _)
inspectFrom(table, cwd, pids, i, seen) ==
  IF i > Len(pids) THEN [value |-> FALSE, threw |-> FALSE, inspected |-> seen]
  ELSE IF lsofThrows(table, pids[i])
       THEN inspectFrom(table, cwd, pids, i + 1, Append(seen, pids[i]))
  ELSE IF trim(lsofOutput(table, pids[i])) = cwd
       THEN [value |-> TRUE, threw |-> FALSE, inspected |-> Append(seen, pids[i])]
  ELSE inspectFrom(table, cwd, pids, i + 1, Append(seen, pids[i]))

isCliRunning(table, cwd) ==
  IF pgrepThrows(table) THEN [value |-> FALSE, threw |-> FALSE, inspected |-> <<>>]
  ELSE inspectFrom(table, cwd, pidsOf(pgrepOutput(1, Len(table.procs))), 1, <<>>)

InitCli ==
  /\ InitProgram
  /\ arg \in [pgrep : PgrepOutcomes, procs : SeqsUpTo(Candidates, MaxPids),
              cwd : {ProjectDir, SpacedDir}]

IsCliRunning ==
  /\ ~applied
  /\ applied' = TRUE
  /\ result' = isCliRunning(arg, arg.cwd)
  /\ UNCHANGED <<wvars, mtime, now, faults, avars, svars, arg>>

NextCli == IsCliRunning

SpecCli == InitCli /\ [][NextCli]_vars

\* ----------------------------------------------------------------- SpecLines
\* readNewLines and parseClaudeLine / parseCodexLine on the text of a log
\* unit (both adapters have the same structure). The text is a sequence of
\* tokens: "E1" and "E2" are complete JSON messages that decode to one and to
\* two events, "B1" is a complete JSON message with a first block that
\* decodes to an event and a second block on which the decoder throws (a
\* null block, a content that is not a string), "X" is text that is not
\* JSON, and " " and "\n" are themselves.
JsonTokens == {"E1", "E2", "B1"}
Tokens == JsonTokens \cup {"X", " ", "\n"}

\* JSON.parse(line) returns: the line is one JSON value, white space around it.
jsonParses(line) ==
  LET body == SelectSeq(line, LAMBDA c : c \notin WhiteSpace)
  IN Len(body) = 1 /\ body[1] \in JsonTokens

\* The events the decoder has pushed when it returns or throws.
eventsPushed(line) ==
  LET body == SelectSeq(line, LAMBDA c : c \notin WhiteSpace)
  IN IF body[1] = "E2" THEN 2 ELSE 1

\* The decoder throws on the line: in JSON.parse, or on a block.
decoderThrows(line) ==
  \/ ~jsonParses(line)
  \/ \E k \in 1..Len(line) : line[k] = "B1"

\* A faulty variant: the try around the decoding is missing.
parseClaudeLineUncaught(line, i) ==
  IF decoderThrows(line) THEN [threw |-> TRUE, events |-> <<>>]
  ELSE [threw |-> FALSE, events |-> [j \in 1..eventsPushed(line) |-> <<i, j>>]]

\* parseClaudeLine / parseCodexLine on the i-th line of the new content: the
\* events pushed before a throw are returned. An event is named by its line
\* and its place among the line's events.
parseClaudeLine(line, i) ==
  IF ~jsonParses(line) THEN [threw |-> FALSE, events |-> <<>>]
  ELSE [threw |-> FALSE, events |-> [j \in 1..eventsPushed(line) |-> <<i, j>>]]

\* for (const line of newContent.split('\n')) from the i-th line on.
RECURSIVE linesFrom(_, _, _)
linesFrom(lines, i, evs) ==
  IF i > Len(lines) THEN [rejected |-> FALSE, events |-> evs]
  ELSE IF trim(lines[i]) = <<>> THEN linesFrom(lines, i + 1, evs)
  ELSE LET parsed == parseClaudeLine(lines[i], i) IN
       IF parsed.threw THEN [rejected |-> TRUE, events |-> <<>>]
       ELSE linesFrom(lines, i + 1, evs \o parsed.events)

\* readNewLines once readFile returned content, with lastOffset read from
\* lastOffsets before: what it returns and the offset it leaves.
readNewText(content, lastOffset) ==
  IF Len(content) <= lastOffset
  THEN [rejected |-> FALSE, events |-> <<>>, offset |-> lastOffset]
  ELSE LET newContent == SubSeq(content, lastOffset + 1, Len(content))
           r == linesFrom(split(newContent), 1, <<>>)
       IN [rejected |-> r.rejected, events |-> r.events,
           offset |-> newOffset(content, lastOffset)]

InitLines ==
  /\ InitProgram
  /\ \E content \in SeqsUpTo(Tokens, MaxTokens) :
       arg \in [content : {content}, lastOffset : 0..Len(content)]

ReadNewLines ==
  /\ ~applied
  /\ applied' = TRUE
  /\ result' = readNewText(arg.content, arg.lastOffset)
  /\ UNCHANGED <<wvars, mtime, now, faults, avars, svars, arg>>

NextLines == ReadNewLines

SpecLines == InitLines /\ [][NextLines]_vars

\* ----------------------------------------------------- SpecReads, SpecOverlap
\* readNewLines as the two steps the event loop runs it in: up to the await
\* of readFile (lastOffset is read from lastOffsets), and from the await on
\* (the content is compared and sliced with that lastOffset, lastOffsets is
\* set, the lines are decoded). An agent appends characters at any time.
\* arg.reads is the calls that are at the await, each with its unit and the
\* lastOffset it read; arg.delivered counts, per unit and position, the
\* events returned so far that were decoded from the line at that position;
\* result is what the call that returned last returned.
MaxReadsInFlight == 2

RECURSIVE lineStarts(_, _)
\* The positions in the content at which the lines of newContent begin, the
\* first of them at position p.
lineStarts(lines, p) ==
  IF lines = <<>> THEN <<>>
  ELSE <<p>> \o lineStarts(Tail(lines), p + Len(Head(lines)) + 1)

\* The positions of the lines that the loop over newContent.split('\n')
\* decodes to an event.
eventsRead(content, lastOffset) ==
  LET lines == split(SubSeq(content, lastOffset + 1, Len(content)))
      starts == lineStarts(lines, lastOffset + 1)
  IN {starts[i] : i \in {j \in 1..Len(lines) : parseLine(lines[j]) = 1}}

NoDeliveries == [u \in Units |-> [i \in 1..MaxChars |-> 0]]

InitReads ==
  /\ InitProgram
  /\ arg = [reads |-> <<>>, delivered |-> NoDeliveries]

\* const lastOffset = this.lastOffsets.get(filePath) ?? 0, and readFile is
\* called; at most cap calls are at the await.
BeginRead(cap) ==
  /\ calls < MaxCalls
  /\ Len(arg.reads) < cap
  /\ \E u \in Units :
       /\ file[u] # <<>>
       /\ arg' = [arg EXCEPT !.reads = Append(@, [unit |-> u, lastOffset |-> fileOffsets[u]])]
  /\ calls' = calls + 1
  /\ UNCHANGED <<wvars, mtime, now, faults, svars, file, fileOffsets, decodedTimes,
                 seenLen, unchangedReads, rereadEvents, result, applied>>

\* readFile resolved for the i-th call at the await: the rest of readNewLines.
EndRead ==
  /\ \E i \in 1..Len(arg.reads) :
       LET u == arg.reads[i].unit
           lastOffset == arg.reads[i].lastOffset
           content == file[u]
           evs == IF Len(content) <= lastOffset THEN {} ELSE eventsRead(content, lastOffset)
       IN /\ fileOffsets' = IF Len(content) <= lastOffset THEN fileOffsets
                            ELSE [fileOffsets EXCEPT ![u] = newOffset(content, lastOffset)]
          /\ result' = [unit |-> u, events |-> evs]
          /\ arg' = [reads |-> SubSeq(arg.reads, 1, i - 1)
                                 \o SubSeq(arg.reads, i + 1, Len(arg.reads)),
                      delivered |->
                        [arg.delivered EXCEPT ![u] =
                           [p \in 1..MaxChars |-> IF p \in evs THEN @[p] + 1 ELSE @[p]]]]
  /\ applied' = TRUE
  /\ UNCHANGED <<wvars, mtime, now, faults, svars, file, decodedTimes, seenLen,
                 unchangedReads, rereadEvents, calls>>

\* One call at a time, as when every pollAll returns before the next begins.
BeginReadAlone == BeginRead(1)
\* A call begins while another is at the await, as when setInterval fires
\* during a pollAll.
BeginReadOverlapping == BeginRead(MaxReadsInFlight)

NextReads == AppendChar \/ BeginReadAlone \/ EndRead
SpecReads == InitReads /\ [][NextReads]_vars

NextOverlap == AppendChar \/ BeginReadOverlapping \/ EndRead
SpecOverlap == InitReads /\ [][NextOverlap]_vars

\* ----------------------------------------------------------- SpecSealOverlap
\* sealSession as the two steps the event loop runs it in: up to its first
\* await (the session is looked up; a call that finds none returns null), and
\* from there on (the signals are appended, the summary is written, the key
\* is deleted), for calls that overlap: a call from outside the watcher and
\* one of a tick, or those of two ticks. arg.seals is the calls at the await,
\* each with its key and the session it found; arg.begun counts the calls.
MaxSeals == 2

\* sealSession after its first await, with the session it had looked up.
sealAfterAwait(st, key, session, nGit, t) ==
  LET s1 == appendSignals(st, session.sessionId, nGit, t)
      summary == [id |-> session.sessionId, agent |-> session.agent,
                  projectCwd |-> session.cwd,
                  startedAt |-> session.startTime, endedAt |-> t,
                  filesChanged |-> {session.files[i] : i \in 1..Len(session.files)},
                  outcome |-> outcome(st.events[session.sessionId]),
                  interventions |-> nGit, analyzed |-> FALSE]
      s2 == saveSessionSummary(s1, summary)
  IN IF s2.thrown THEN s2
     ELSE [s2 EXCEPT !.sessions[key] = NoSession,
                     !.trace = Append(@, Effect("untrack", "untrack", session.sessionId,
                                                session.cwd, <<>>, 0))]

InitSealOverlap == InitProgram /\ arg = [seals |-> <<>>, begun |-> 0]

\* const session = this.sessions.get(key); if (!session) return null
SealBegin ==
  /\ running
  /\ arg.begun < MaxSeals
  /\ \E key \in Keys :
       IF sessions[key] = NoSession
       THEN /\ arg' = [arg EXCEPT !.begun = @ + 1]
            /\ result' = [key |-> key, returned |-> "null"]
       ELSE /\ arg' = [seals |-> Append(arg.seals, [key |-> key, session |-> sessions[key]]),
                       begun |-> arg.begun + 1]
            /\ UNCHANGED result
  /\ applied' = TRUE
  /\ UNCHANGED <<wvars, mtime, now, faults, avars, svars>>

\* The rest of the i-th call at the await.
SealEnd ==
  /\ \E i \in 1..Len(arg.seals) : \E nGit \in 0..MaxGitSignals :
       LET c == arg.seals[i]
           st == sealAfterAwait(WState, c.key, c.session, nGit, now)
       IN /\ sessions' = st.sessions
          /\ events' = st.events
          /\ summaries' = st.summaries
          /\ nSummaries' = st.nSummaries
          /\ trace' = trace \o st.trace
          /\ result' = [key |-> c.key, returned |-> "summary"]
          /\ arg' = [arg EXCEPT !.seals = SubSeq(arg.seals, 1, i - 1)
                                            \o SubSeq(arg.seals, i + 1, Len(arg.seals))]
  /\ UNCHANGED <<running, pollTimer, lastPollTime, lastActive, logs, mtime, newest,
                 lastOffsets, now, inflight, tickLog, scan, gone, faults, ticks,
                 goodTick, applied>>
  /\ UNCHANGED <<avars, svars>>

NextSealOverlap == WriteLog \/ StartOnce \/ SealBegin \/ SealEnd

SpecSealOverlap == InitSealOverlap /\ [][NextSealOverlap]_vars

\* ------------------------------------------------------------- SpecStartStop
\* start and stop called in any order, start as the two steps the event loop
\* runs it in: up to its first await (the guard, running, lastPollTime), and
\* from there on (the detection, the count, setInterval). arg.starting counts
\* the start calls at the await, arg.timers the intervals that are scheduled
\* (set and not cleared), arg.last is the call made last and arg.calls counts
\* the calls; pollTimer says that the field holds an interval.
MaxStartStopCalls == 4

InitStartStop ==
  /\ InitProgram
  /\ arg = [starting |-> 0, timers |-> 0, last |-> "none", calls |-> 0]

\* start(): if (this.running) return; this.running = true; the first await.
StartCall ==
  /\ arg.calls < MaxStartStopCalls
  /\ IF running
     THEN /\ arg' = [arg EXCEPT !.last = "start", !.calls = @ + 1]
          /\ UNCHANGED <<running, lastPollTime>>
     ELSE /\ arg' = [arg EXCEPT !.last = "start", !.calls = @ + 1, !.starting = @ + 1]
          /\ running' = TRUE
          /\ lastPollTime' = 0
  /\ UNCHANGED <<pollTimer, sessions, lastActive, events, summaries, logs, newest,
                 lastOffsets, inflight, nSummaries, trace, tickLog, scan, gone, ticks,
                 goodTick>>
  /\ UNCHANGED <<mtime, now, faults, avars, svars, result, applied>>

\* A start call at the await goes on: the sessions are detected and counted
\* and this.pollTimer = setInterval(...).
StartResume ==
  /\ arg.starting > 0
  /\ DetectAndCount
  /\ pollTimer' = TRUE
  /\ arg' = [arg EXCEPT !.starting = @ - 1, !.timers = @ + 1]
  /\ applied' = TRUE
  /\ UNCHANGED <<running, result>>

\* stop(): this.running = false; the interval the field holds is cleared.
StopCall ==
  /\ arg.calls < MaxStartStopCalls
  /\ running' = FALSE
  /\ pollTimer' = FALSE
  /\ arg' = [arg EXCEPT !.last = "stop", !.calls = @ + 1,
                        !.timers = IF pollTimer THEN @ - 1 ELSE @]
  /\ UNCHANGED <<lastPollTime, sessions, lastActive, events, summaries, logs,
                 newest, lastOffsets, inflight, nSummaries, trace, tickLog, scan, gone,
                 ticks, goodTick>>
  /\ UNCHANGED <<mtime, now, faults, avars, svars, result, applied>>

NextStartStop == WriteLog \/ StartCall \/ StartResume \/ StopCall

SpecStartStop == InitStartStop /\ [][NextStartStop]_vars

\* ---------------------------------------------------------------- SpecTiming
\* The Store's event log of one session of one key, with the timestamps of
\* its events, over the session's life in the watcher: it is reported active
\* and tracked, its events are routed, it goes offline and is sealed, and it
\* may be reported active again under the same sessionId (the same log unit
\* is still the newest) and be sealed again. arg.log is the events file,
\* arg.tracked says that the key has a TrackedSession, arg.seals counts the
\* seals, arg.clock is Date.now(). An intervention event that
\* detectTimingSignals derived carries in pair the position in the file of
\* the later event of the pair it was derived from (0 for any other event).
GAP_MS == 1
MaxTimingEvents == 7
MaxTimingSeals == 2
MaxClock == 3

TimedEvent(type, timestamp, signal, pair) ==
  [type |-> type, timestamp |-> timestamp, signal |-> signal, pair |-> pair]

\* SignalEnricher.detectTimingSignals: one long_pause for every event that
\* comes more than GAP_MS after the event before it.
RECURSIVE timingFrom(_, _, _)
timingFrom(evs, i, results) ==
  IF i > Len(evs) THEN results
  ELSE timingFrom(evs, i + 1,
         IF evs[i].timestamp - evs[i - 1].timestamp > GAP_MS
         THEN Append(results, TimedEvent("user_intervention", evs[i].timestamp, "long_pause", i))
         ELSE results)

detectTimingSignals(evs) == timingFrom(evs, 2, <<>>)

\* sealSession on the events file: the file is read, the git signals are
\* appended, then the timing signals derived from what was read.
sealTimed(log, nGit, t) ==
  LET evs == log
      gitSignals == [j \in 1..nGit |-> TimedEvent("user_intervention", t, "git", 0)]
  IN log \o gitSignals \o detectTimingSignals(evs)

InitTiming ==
  /\ InitProgram
  /\ arg = [log |-> <<>>, tracked |-> FALSE, seals |-> 0, clock |-> 0]

\* Time passes.
ClockTick ==
  /\ arg.clock < MaxClock
  /\ arg' = [arg EXCEPT !.clock = @ + 1]
  /\ UNCHANGED <<wvars, mtime, now, faults, avars, svars, result, applied>>

\* A tick finds the project reported and the key not active: the session is
\* tracked and session_start appended.
GoesOnline ==
  /\ ~arg.tracked
  /\ Len(arg.log) < MaxTimingEvents
  /\ arg.seals < MaxTimingSeals
  /\ arg' = [arg EXCEPT !.tracked = TRUE,
                        !.log = Append(@, TimedEvent("session_start", arg.clock, "", 0))]
  /\ UNCHANGED <<wvars, mtime, now, faults, avars, svars, result, applied>>

\* A tick routes an event of the session: a codex event is stamped with the
\* time of its decoding, a claude event with its line's own timestamp.
RoutesEvent ==
  /\ arg.tracked
  /\ Len(arg.log) < MaxTimingEvents
  /\ \E ts \in {PastTs, arg.clock} :
       arg' = [arg EXCEPT !.log = Append(@, TimedEvent("file_edit", ts, "", 0))]
  /\ UNCHANGED <<wvars, mtime, now, faults, avars, svars, result, applied>>

\* A tick finds the project no longer reported: session_end is appended and
\* the session sealed.
GoesOffline ==
  /\ arg.tracked
  /\ Len(arg.log) < MaxTimingEvents
  /\ \E nGit \in 0..MaxGitSignals :
       LET ended == Append(arg.log, TimedEvent("session_end", arg.clock, "", 0))
           sealed == sealTimed(ended, nGit, arg.clock)
       IN /\ arg' = [arg EXCEPT !.tracked = FALSE, !.log = sealed, !.seals = @ + 1]
          /\ result' = [appended |-> Len(sealed) - Len(ended)]
  /\ applied' = TRUE
  /\ UNCHANGED <<wvars, mtime, now, faults, avars, svars>>

NextTiming == ClockTick \/ GoesOnline \/ RoutesEvent \/ GoesOffline

SpecTiming == InitTiming /\ [][NextTiming]_vars

\* ---------------------------------------------------------------- SpecReview
\* The watcher, and the review command used on a session that is still
\* active: handleReview writes a temporary summary for it and calls
\* analyzeSession, which reads the events and that summary and writes the
\* summary back marked as analyzed, with the number of events reviewed.
reviewedSummary(sid, a, evs, t) ==
  LET edits == SelectSeq(evs, LAMBDA e : e.type = "file_edit")
      tempSummary == [id |-> sid, agent |-> a,
                      startedAt |-> evs[1].timestamp, endedAt |-> t,
                      outcome |-> outcome(evs),
                      filesChanged |-> {FilePath : i \in 1..Len(edits)},
                      interventions |-> 0, analyzed |-> FALSE]
  IN [id |-> tempSummary.id, agent |-> tempSummary.agent,
      startedAt |-> tempSummary.startedAt, endedAt |-> tempSummary.endedAt,
      outcome |-> tempSummary.outcome, filesChanged |-> tempSummary.filesChanged,
      interventions |-> tempSummary.interventions,
      analyzed |-> TRUE, reviewedEventCount |-> Len(evs)]

\* The user reviews an active session that has events and is not marked as
\* analyzed, between two ticks; the review agent answers.
Review ==
  /\ inflight = <<>>
  /\ \E k \in Keys :
       /\ sessions[k] # NoSession
       /\ sessions[k].active
       /\ LET sid == sessions[k].sessionId IN
          /\ events[sid] # <<>>
          /\ IF summaries[sid] = NoSummary THEN TRUE ELSE ~summaries[sid].analyzed
          /\ summaries' = [summaries EXCEPT ![sid] =
                             reviewedSummary(sid, sessions[k].agent, events[sid], now)]
          /\ nSummaries' = [nSummaries EXCEPT ![sid] = @ + 2]
  /\ UNCHANGED <<running, pollTimer, lastPollTime, sessions, lastActive, events, logs,
                 newest, lastOffsets, inflight, trace, tickLog, scan, gone, ticks,
                 goodTick>>
  /\ UNCHANGED <<mtime, now, faults, avars, svars, fvars>>

NextReview ==
  WriteLog \/ Start \/ TimerFireRegular \/ ProcessAdapter \/ PollAllThrows \/ Review

SpecReview == Init /\ [][NextReview]_vars

\* ------------------------------------------------------------------ getStatus
RECURSIVE sumEventCount(_)
\* for (const s of sessionList) totalEvents += s.eventCount
sumEventCount(K) ==
  IF K = {} THEN 0
  ELSE LET k == CHOOSE x \in K : TRUE
       IN sessions[k].eventCount + sumEventCount(K \ {k})

\* LiveWatcher.getStatus: the tracked sessions and the sum of their counts.
getStatus ==
  LET tracked == {k \in Keys : sessions[k] # NoSession}
  IN [running |-> running,
      sessions |-> {[agent |-> sessions[k].agent, sessionId |-> sessions[k].sessionId,
                     eventCount |-> sessions[k].eventCount, live |-> sessions[k].active,
                     projectCwd |-> sessions[k].cwd] : k \in tracked},
      totalEvents |-> sumEventCount(tracked)]

\* ----------------------------------------------------------------- SpecRoute
\* The watcher with agents that write one more line, all of them file edits
\* stamped in the past, and a timer that fires every period.
MaxRouteLines == 3

WriteEdit ==
  /\ inflight = <<>>
  /\ LinesWritten < MaxRouteLines
  /\ \E u \in Units :
       /\ u[3] <= UnitsCreated(sessionKey(u[1], u[2])) + 1
       /\ logs' = [logs EXCEPT ![u] = Append(@, [kind |-> "file_edit", ts |-> PastTs])]
       /\ mtime' = [mtime EXCEPT ![u] = now]
       /\ newest' = [newest EXCEPT ![sessionKey(u[1], u[2])] = u[3]]
  /\ UNCHANGED <<running, pollTimer, lastPollTime, sessions, lastActive, events,
                 summaries, lastOffsets, now, inflight, nSummaries, trace,
                 tickLog, scan, gone, faults, ticks, goodTick>>
  /\ UNCHANGED <<avars, svars, fvars>>

NextRoute == WriteEdit \/ Start \/ TimerFireRegular \/ ProcessAdapter \/ PollAllThrows

SpecRoute == Init /\ [][NextRoute]_vars

\* ------------------------------------------------------------- SpecSealSignals
\* sealSession with the three kinds of derived events told apart. arg.stored
\* is what getSessionEvents returns for the session (the timestamps of the
\* events of its file, each stored under the session's id), arg.git and
\* arg.agentFiles are as in SpecEnrich, arg.failAt is the number of Store
\* writes that succeed before one throws (-1: none throws). The id of an event
\* made with sessionId '' is NoId.
MaxStoredTimed == 3
StoredTimes == {0, 2}
NoId == <<>>

SignalEvent(sid, t, signal) ==
  [type |-> "user_intervention", sessionId |-> sid, timestamp |-> t, signal |-> signal]

\* What checkGitSignals(session.sessionId) returns, sig.sessionId assigned.
gitSignalEvents(git, sid, t) ==
  LET sigs == checkGitSignals(git).events
  IN [i \in 1..Len(sigs) |-> SignalEvent(sid, t, sigs[i])]

\* What detectManualEdits returns: events with sessionId ''.
manualEditEvents(agentFiles, afterTimestamp) ==
  LET idx == detectManualEdits(agentFiles, afterTimestamp).events
  IN [i \in 1..Len(idx) |-> SignalEvent(NoId, agentFiles[idx[i]].mtimeMs, "manual_edit")]

\* edit.sessionId = session.sessionId
assignSessionId(evs, sid) == [i \in 1..Len(evs) |-> [evs[i] EXCEPT !.sessionId = sid]]

\* What detectTimingSignals(events) returns: sessionId and timestamp are
\* those of the later event of the pair.
\* A faulty variant: a gap of exactly the threshold is flagged as well.
isLongGapInclusive(prev, curr) == curr.timestamp - prev.timestamp >= GAP_MS

\* curr.timestamp - prev.timestamp > GAP_MS
isLongGap(prev, curr) == curr.timestamp - prev.timestamp > GAP_MS

RECURSIVE timingSignalEvents(_, _)
timingSignalEvents(evs, i) ==
  IF i > Len(evs) THEN <<>>
  ELSE (IF isLongGap(evs[i - 1], evs[i])
        THEN <<SignalEvent(evs[i].sessionId, evs[i].timestamp, "long_pause")>>
        ELSE <<>>) \o timingSignalEvents(evs, i + 1)

\* A faulty variant: the timing signals are not counted.
interventionCountNoTiming(gitSignals, manualEdits, timingSignals) ==
  Len(gitSignals) + Len(manualEdits)

\* gitSignals.length + manualEdits.length + timingSignals.length
interventionCount(gitSignals, manualEdits, timingSignals) ==
  Len(gitSignals) + Len(manualEdits) + Len(timingSignals)

\* sealSession from the read of the events on: the Store writes made, in
\* order (an append names the file it went to), and whether one threw.
sealWithSignals(session, stored, git, agentFiles, t, failAt) ==
  LET gitSignals == gitSignalEvents(git, session.sessionId, t)
      manualEdits == assignSessionId(manualEditEvents(agentFiles, t - MinuteMs),
                                     session.sessionId)
      timingSignals == timingSignalEvents(stored, 2)
      toAppend == gitSignals \o manualEdits \o timingSignals
      done == IF failAt = -1 \/ failAt > Len(toAppend) THEN Len(toAppend) ELSE failAt
      appends == [i \in 1..done |-> [op |-> "append", file |-> toAppend[i].sessionId,
                                     event |-> toAppend[i]]]
      summary == [id |-> session.sessionId, agent |-> session.agent,
                  projectCwd |-> session.cwd,
                  startedAt |-> session.startTime, endedAt |-> t,
                  filesChanged |-> {session.files[i] : i \in 1..Len(session.files)},
                  interventions |-> interventionCount(gitSignals, manualEdits, timingSignals),
                  analyzed |-> FALSE]
      thrown == failAt # -1 /\ failAt <= Len(toAppend)
  IN [writes |-> IF thrown THEN appends
                 ELSE Append(appends, [op |-> "summary", file |-> summary.id,
                                       event |-> summary]),
      thrown |-> thrown,
      derived |-> [git |-> gitSignals, manual |-> manualEdits, timing |-> timingSignals]]

InitSealSignals ==
  /\ InitProgram
  /\ arg \in [git : GitRuns, agentFiles : SeqsUpTo(AgentFiles, MaxFiles),
              stored : SeqsUpTo(StoredTimes, MaxStoredTimed),
              key : {sessionKey("claude", 1)}, now : {PruneClock},
              failAt : -1..1]

SealWithSignals ==
  /\ ~applied
  /\ applied' = TRUE
  /\ LET sid == <<arg.key[1], arg.key[2], 1>>
         session == TrackedSession(arg.key[1], sid, PastTs, arg.key[2])
         stored == [i \in 1..Len(arg.stored) |->
                      [type |-> "file_edit", sessionId |-> sid,
                       timestamp |-> arg.stored[i], signal |-> ""]]
     IN result' = sealWithSignals(session, stored, arg.git, arg.agentFiles,
                                  arg.now, arg.failAt)
  /\ UNCHANGED <<wvars, mtime, now, faults, avars, svars, arg>>

NextSealSignals == SealWithSignals

SpecSealSignals == InitSealSignals /\ [][NextSealSignals]_vars

\* ------------------------------------------------------------------ SpecGaps
\* detectTimingSignals applied to the events of one session's file, given by
\* their timestamps in units of the gap threshold.
MaxGapEvents == 4
GapTimes == 0..3

InitGaps ==
  /\ InitProgram
  /\ arg \in [sessionId : {<<"claude", 1, 1>>, <<"codex", 1, 2>>},
              times : SeqsUpTo(GapTimes, MaxGapEvents)]

DetectTimingSignals ==
  /\ ~applied
  /\ applied' = TRUE
  /\ LET evs == [i \in 1..Len(arg.times) |->
                   [type |-> "file_edit", sessionId |-> arg.sessionId,
                    timestamp |-> arg.times[i], signal |-> ""]]
     IN result' = [events |-> timingSignalEvents(evs, 2)]
  /\ UNCHANGED <<wvars, mtime, now, faults, avars, svars, arg>>

NextGaps == DetectTimingSignals

SpecGaps == InitGaps /\ [][NextGaps]_vars

\* ---------------------------------------------------------------- SpecManual
\* detectManualEdits as sealSession calls it, on the files of the session. A
\* file is given by what stat does for it and by who modified it last: the
\* agent through a tracked tool call, or someone else.
TouchedFiles ==
  {[throws |-> TRUE, mtimeMs |-> 0, by |-> "nobody"]}
    \cup [throws : {FALSE}, mtimeMs : 0..MaxMtime, by : {"agent", "user"}]

InitManual ==
  /\ InitProgram
  /\ arg \in [agentFiles : SeqsUpTo(TouchedFiles, MaxFiles), now : {PruneClock}]

DetectManualEdits ==
  /\ ~applied
  /\ applied' = TRUE
  /\ result' = detectManualEdits(arg.agentFiles, arg.now - MinuteMs)
  /\ UNCHANGED <<wvars, mtime, now, faults, avars, svars, arg>>

NextManual == DetectManualEdits

SpecManual == InitManual /\ [][NextManual]_vars

\* ----------------------------------------------------------------- SpecTests
\* detectTestResult (the same in both adapters) applied to the summary line
\* of a test run. The text is a sequence of tokens, a number or a piece of
\* text; where the line has white space, one token ends and the next begins.
Num(n) == [w |-> "num", n |-> n]
Word(w) == [w |-> w, n |-> 0]
isNum(tok) == tok.w = "num"

Families == {"jest", "pytest", "go", "cargo"}

\* The part "n what," of a summary, left out when n is 0.
countPart(n, what) == IF n = 0 THEN <<>> ELSE <<Num(n), Word(what), Word(",")>>

\* The summary line each runner prints for a run with the given counts.
\*   jest:   Tests: 1 failed, 2 passed, 3 total  (skipped tests are not told
\*           apart: the patterns have no group for them)
\*   pytest: 2 passed, 1 failed, 1 skipped
\*   go:     ok  pkg 0.1s  /  FAIL pkg 0.1s
\*   cargo:  test result: FAILED. 2 passed; 1 failed; 1 ignored
summaryLine(family, p, f, s) ==
  IF family = "jest"
  THEN <<Word("Tests:")>> \o countPart(f, "failed")
         \o <<Num(p), Word("passed"), Word(","), Num(p + f + s), Word("total")>>
  ELSE IF family = "pytest"
  THEN <<Num(p), Word("passed")>>
         \o (IF f = 0 THEN <<>> ELSE <<Word(","), Num(f), Word("failed")>>)
         \o (IF s = 0 THEN <<>> ELSE <<Word(","), Num(s), Word("skipped")>>)
  ELSE IF family = "go"
  THEN <<Word(IF f = 0 THEN "ok" ELSE "FAIL"), Word("pkg"), Word("0.1s")>>
  ELSE <<Word("test"), Word("result:"), Word(IF f = 0 THEN "ok." ELSE "FAILED."),
         Num(p), Word("passed"), Word(";"), Num(f), Word("failed"), Word(";"),
         Num(s), Word("ignored")>>

NoMatch == [matched |-> FALSE, groups |-> <<>>]
NoTestResult == [framework |-> "none", passed |-> 0, failed |-> 0, skipped |-> 0]

tokAt(toks, i) == IF i \in 1..Len(toks) THEN toks[i] ELSE Word("")

\* The first position from from on where a number is followed by word
\* (0: none): what .*?(\d+)\s+word finds.
numThen(toks, from, word) ==
  LET hits == {i \in from..(Len(toks) - 1) : isNum(toks[i]) /\ toks[i + 1].w = word}
  IN IF hits = {} THEN 0 ELSE CHOOSE i \in hits : \A h \in hits : i <= h

\* /Tests:\s+(\d+)\s+failed.*?(\d+)\s+passed.*?(\d+)\s+total/s
jestFail(toks) ==
  LET starts == {i \in 1..Len(toks) :
                   /\ toks[i].w = "Tests:" /\ isNum(tokAt(toks, i + 1))
                   /\ tokAt(toks, i + 2).w = "failed"
                   /\ LET j == numThen(toks, i + 3, "passed")
                      IN j # 0 /\ numThen(toks, j + 2, "total") # 0}
  IN IF starts = {} THEN NoMatch
     ELSE LET i == CHOOSE x \in starts : \A y \in starts : x <= y
              j == numThen(toks, i + 3, "passed")
              k == numThen(toks, j + 2, "total")
          IN [matched |-> TRUE, groups |-> <<toks[i + 1].n, toks[j].n, toks[k].n>>]

\* /Tests:\s+(\d+)\s+passed.*?(\d+)\s+total/s
jestPass(toks) ==
  LET starts == {i \in 1..Len(toks) :
                   /\ toks[i].w = "Tests:" /\ isNum(tokAt(toks, i + 1))
                   /\ tokAt(toks, i + 2).w = "passed"
                   /\ numThen(toks, i + 3, "total") # 0}
  IN IF starts = {} THEN NoMatch
     ELSE LET i == CHOOSE x \in starts : \A y \in starts : x <= y
              k == numThen(toks, i + 3, "total")
          IN [matched |-> TRUE, groups |-> <<toks[i + 1].n, toks[k].n>>]

\* /(\d+)\s+passed(?:,\s+(\d+)\s+failed)?(?:,\s+(\d+)\s+skipped)?/
\* A group that did not take part is "undefined", read as '0' by || '0'.
pytest(toks) ==
  LET i == numThen(toks, 1, "passed")
      hasFailed == /\ tokAt(toks, i + 2).w = "," /\ isNum(tokAt(toks, i + 3))
                   /\ tokAt(toks, i + 4).w = "failed"
      after == IF hasFailed THEN i + 5 ELSE i + 2
      hasSkipped == /\ tokAt(toks, after).w = "," /\ isNum(tokAt(toks, after + 1))
                    /\ tokAt(toks, after + 2).w = "skipped"
  IN IF i = 0 THEN NoMatch
     ELSE [matched |-> TRUE,
           groups |-> <<toks[i].n,
                        IF hasFailed THEN toks[i + 3].n ELSE 0,
                        IF hasSkipped THEN toks[after + 1].n ELSE 0>>]

\* /^(ok|FAIL)\s+\S+/m on the one line of the text
goTest(toks) ==
  IF Len(toks) >= 2 /\ toks[1].w \in {"ok", "FAIL"}
  THEN [matched |-> TRUE, groups |-> <<IF toks[1].w = "ok" THEN 1 ELSE 0>>]
  ELSE NoMatch

\* /test result: (\w+)\. (\d+) passed; (\d+) failed; (\d+) ignored/
cargoTest(toks) ==
  LET starts == {i \in 1..(Len(toks) - 10) :
                   /\ toks[i].w = "test" /\ toks[i + 1].w = "result:"
                   /\ toks[i + 2].w \in {"ok.", "FAILED."}
                   /\ isNum(toks[i + 3]) /\ toks[i + 4].w = "passed" /\ toks[i + 5].w = ";"
                   /\ isNum(toks[i + 6]) /\ toks[i + 7].w = "failed" /\ toks[i + 8].w = ";"
                   /\ isNum(toks[i + 9]) /\ toks[i + 10].w = "ignored"}
  IN IF starts = {} THEN NoMatch
     ELSE LET i == CHOOSE x \in starts : \A y \in starts : x <= y
          IN [matched |-> TRUE, groups |-> <<toks[i + 3].n, toks[i + 6].n, toks[i + 9].n>>]

TestResult(framework, p, f, s) ==
  [framework |-> framework, passed |-> p, failed |-> f, skipped |-> s]

detectTestResult(stdout) ==
  LET jestMatch == IF jestFail(stdout).matched THEN jestFail(stdout) ELSE jestPass(stdout)
      pytestMatch == pytest(stdout)
      goMatch == goTest(stdout)
      cargoMatch == cargoTest(stdout)
  IN IF jestMatch.matched
     THEN IF Len(jestMatch.groups) = 3
          THEN TestResult("jest", jestMatch.groups[2], jestMatch.groups[1], 0)
          ELSE TestResult("jest", jestMatch.groups[1], 0, 0)
     ELSE IF pytestMatch.matched
     THEN TestResult("pytest", pytestMatch.groups[1], pytestMatch.groups[2],
                     pytestMatch.groups[3])
     ELSE IF goMatch.matched
     THEN TestResult("go", goMatch.groups[1], 1 - goMatch.groups[1], 0)
     ELSE IF cargoMatch.matched
     THEN TestResult("cargo", cargoMatch.groups[1], cargoMatch.groups[2],
                     cargoMatch.groups[3])
     ELSE NoTestResult

InitTests ==
  /\ InitProgram
  /\ arg \in [family : Families, passed : 0..MaxCount, failed : 0..MaxCount,
              skipped : 0..MaxCount]

DetectTestResult ==
  /\ ~applied
  /\ applied' = TRUE
  /\ result' = detectTestResult(summaryLine(arg.family, arg.passed, arg.failed, arg.skipped))
  /\ UNCHANGED <<wvars, mtime, now, faults, avars, svars, arg>>

NextTests == DetectTestResult

SpecTests == InitTests /\ [][NextTests]_vars

\* ----------------------------------------------------------------- SpecNames
\* decodeDirName applied to two directory names of ~/.claude/projects that
\* begin with '-', whatever they are, with the same things on disk.
MaxNameLen == 4
MaxDiskDirs == 2
NameChars == {"a", "b", "-"}

EncodedNames == {<<"-">> \o rest : rest \in SeqsUpTo(NameChars, MaxNameLen - 1)}

DiskPool == PathsOfDepth(1) \cup PathsOfDepth(2)

InitNames ==
  /\ InitProgram
  /\ \E e \in EncodedNames : \E o \in EncodedNames :
     \E dirs \in SubsetsUpTo(DiskPool, MaxDiskDirs) :
       arg = [encoded |-> e, other |-> o,
              disk |-> dirs \cup UNION {Ancestors(d) : d \in dirs}]

DecodeNames ==
  /\ ~applied
  /\ applied' = TRUE
  /\ result' = [path |-> decodeDirName(arg.encoded, arg.disk),
                otherPath |-> decodeDirName(arg.other, arg.disk)]
  /\ UNCHANGED <<wvars, mtime, now, faults, avars, svars, arg>>

NextNames == DecodeNames

SpecNames == InitNames /\ [][NextNames]_vars

\* ---------------------------------------------------------------- SpecActive
\* getAllActiveSessions of both adapters, on what the file system holds. A
\* log file is given by what statSync does for it: throw, or return its
\* modification time. claude keeps one directory per project, named after the
\* project's path; codex keeps all its files in one tree, and a file names
\* its project in its session_meta line (NoCwd: it has none). A unit of the
\* result is named by where it was found: <<directory, file>> for claude,
\* <<0, file>> for codex.
MaxDirs == 2
MaxDirFiles == 2
MaxCodexFiles == 3
ActiveClock == 3
NoCwd == <<>>

LogFiles == {[throws |-> TRUE, mtimeMs |-> 0]} \cup [throws : {FALSE}, mtimeMs : 1..ActiveClock]
ClaudeDirNames == {<<"-", "a">>, <<"-", "a", "-", "b">>, <<"a", "-", "b">>}
ClaudeDirs ==
  [name : ClaudeDirNames, files : SeqsUpTo(LogFiles, MaxDirFiles), cli : BOOLEAN]
ActiveDisks == {{}, {<<"/", "a", "-", "b">>}, {<<"/", "a">>, <<"/", "a", "/", "b">>}}
CodexCwds == {<<"/", "a">>, <<"/", "b">>}
CodexFiles ==
  {[throws |-> f.throws, mtimeMs |-> f.mtimeMs, cwd |-> c] :
     f \in LogFiles, c \in CodexCwds \cup {NoCwd}}

\* A faulty variant: of two files modified at the same time the later one
\* in the listing is kept.
isNewerOrSame(mtimeMs, newestMtime) == mtimeMs >= newestMtime

\* st.mtimeMs > newestMtime
isNewer(mtimeMs, newestMtime) == mtimeMs > newestMtime

\* The loop that finds the newest file of a directory: newest starts as
\* files[0], newestMtime as 0; a file whose stat throws is passed over.
RECURSIVE newestFile(_, _, _, _)
newestFile(files, i, newestF, newestMtime) ==
  IF i > Len(files) THEN [newest |-> newestF, newestMtime |-> newestMtime]
  ELSE IF ~files[i].throws /\ isNewer(files[i].mtimeMs, newestMtime)
  THEN newestFile(files, i + 1, i, files[i].mtimeMs)
  ELSE newestFile(files, i + 1, newestF, newestMtime)

\* ClaudeAdapter.getAllActiveSessions from the k-th project directory on.
RECURSIVE claudeActiveFrom(_, _, _, _)
claudeActiveFrom(dirs, k, fsys, cutoff) ==
  IF k > Len(dirs) THEN <<>>
  ELSE LET dir == dirs[k]
           cwd == decodeDirName(dir.name, fsys)
           n == newestFile(dir.files, 1, 1, 0)
           skipped == \/ dir.files = <<>>
                      \/ (n.newestMtime < cutoff /\ ~dir.cli)
       IN (IF skipped THEN <<>> ELSE <<[cwd |-> cwd, unit |-> <<k, n.newest>>]>>)
            \o claudeActiveFrom(dirs, k + 1, fsys, cutoff)

\* byCwd.set(cwd, ...): a Map keeps the place of a key that is set again.
setByCwd(byCwd, cwd, unit, mtimeMs) ==
  IF \E j \in 1..Len(byCwd) : byCwd[j].cwd = cwd
  THEN [j \in 1..Len(byCwd) |->
          IF byCwd[j].cwd = cwd THEN [cwd |-> cwd, unit |-> unit, mtime |-> mtimeMs]
          ELSE byCwd[j]]
  ELSE Append(byCwd, [cwd |-> cwd, unit |-> unit, mtime |-> mtimeMs])

\* CodexAdapter.getAllActiveSessions: the loop over the files of the tree.
RECURSIVE codexByCwd(_, _, _, _)
codexByCwd(allFiles, i, byCwd, cutoff) ==
  IF i > Len(allFiles) THEN byCwd
  ELSE LET f == allFiles[i]
           kept == {j \in 1..Len(byCwd) : byCwd[j].cwd = f.cwd}
           passed == \/ f.throws
                     \/ f.mtimeMs < cutoff
                     \/ f.cwd = NoCwd
                     \/ \E j \in kept : ~isNewer(f.mtimeMs, byCwd[j].mtime)
       IN codexByCwd(allFiles, i + 1,
                     IF passed THEN byCwd ELSE setByCwd(byCwd, f.cwd, <<0, i>>, f.mtimeMs),
                     cutoff)

codexActive(allFiles, cutoff) ==
  LET byCwd == codexByCwd(allFiles, 1, <<>>, cutoff)
  IN [j \in 1..Len(byCwd) |-> [cwd |-> byCwd[j].cwd, unit |-> byCwd[j].unit]]

\* The directories of ~/.claude/projects have different names.
DirListings ==
  {ds \in SeqsUpTo(ClaudeDirs, MaxDirs) :
     \A i, j \in 1..Len(ds) : i # j => ds[i].name # ds[j].name}

InitActive ==
  /\ InitProgram
  /\ \/ \E ds \in DirListings : \E fsys \in ActiveDisks :
          arg = [adapter |-> "claude", dirs |-> ds, allFiles |-> <<>>,
                 disk |-> fsys, now |-> ActiveClock]
     \/ \E fs \in SeqsUpTo(CodexFiles, MaxCodexFiles) :
          arg = [adapter |-> "codex", dirs |-> <<>>, allFiles |-> fs,
                 disk |-> {}, now |-> ActiveClock]

GetAllActiveSessions ==
  /\ ~applied
  /\ applied' = TRUE
  /\ result' = [sessions |->
                  IF arg.adapter = "claude"
                  THEN claudeActiveFrom(arg.dirs, 1, arg.disk, arg.now - LivenessWindow)
                  ELSE codexActive(arg.allFiles, arg.now - LivenessWindow)]
  /\ UNCHANGED <<wvars, mtime, now, faults, avars, svars, arg>>

NextActive == GetAllActiveSessions

SpecActive == InitActive /\ [][NextActive]_vars

\* ------------------------------------------------------------------ claims
\* C1: when an adapter stops reporting a project whose key was active and
\* tracked, exactly one session_end is appended for the session's id and
\* exactly one summary is persisted for it, and no later tick appends another
\* of either while the project stays unreported. (At most one of each always;
\* exactly one of each when no operation has thrown.)
C1_OneEndOneSummary ==
  \A k \in Keys :
    gone[k] # NoGone =>
      /\ gone[k].ends <= 1
      /\ gone[k].sums <= 1
      /\ faults = 0 => (gone[k].ends = 1 /\ gone[k].sums = 1)

\* The events in the Store that were decoded from line i of unit u.
StoredFrom(u, i) ==
  LET ss == SetToSeq(SessionIds) IN
  SeqSum([j \in 1..Len(ss) |->
            Cardinality({n \in 1..Len(events[ss[j]]) : events[ss[j]][n].src = <<u, i>>})])

\* C2: every event an adapter decoded for the watcher (every line below the
\* unit's read offset) is in the Store exactly once: none dropped after its
\* bytes were consumed, none appended twice.
C2_AppendedExactlyOnce ==
  \A u \in Units : \A i \in 1..lastOffsets[u] : StoredFrom(u, i) = 1

\* C3: a TrackedSession is destroyed only by a seal that has just written its
\* summary, and when a summary is written the session's log holds exactly one
\* session_end for the lifecycle.
C3_SealedWithOneEnd ==
  \A j \in 1..Len(trace) :
    /\ trace[j].op = "summary" => trace[j].ends = 1
    /\ trace[j].op = "untrack" =>
         /\ j > 1
         /\ trace[j - 1].op = "summary"
         /\ trace[j - 1].sessionId = trace[j].sessionId

\* C4: whenever a TrackedSession is created for a key that was not active, a
\* session_start for its id is appended and listeners are notified of
\* agent_online and then session_start. (When no operation has thrown: every
\* tracked session has a session_start in its log, and every creation not
\* following a seal is followed at once by the append and the two
\* notifications.)
C4_StartAppendedAndNotified ==
  faults = 0 =>
    /\ \A k \in Keys :
         sessions[k] # NoSession => CountType(events[sessions[k].sessionId], "session_start") >= 1
    /\ \A j \in 1..Len(trace) :
         (trace[j].op = "track" /\ (j = 1 \/ trace[j - 1].op # "untrack")) =>
           /\ j + 3 <= Len(trace)
           /\ trace[j + 1].op = "append" /\ trace[j + 1].type = "session_start"
           /\ trace[j + 1].sessionId = trace[j].sessionId
           /\ trace[j + 2].op = "emit" /\ trace[j + 2].type = "agent_online"
           /\ trace[j + 3].op = "emit" /\ trace[j + 3].type = "session_start"

\* C6: every persisted SessionSummary has endedAt >= startedAt.
C6_EndedNotBeforeStarted ==
  \A sid \in SessionIds :
    summaries[sid] # NoSummary => summaries[sid].endedAt >= summaries[sid].startedAt

\* What happened, entry by entry, without the bookkeeping fields.
Shape(tr) == [j \in 1..Len(tr) |-> <<tr[j].op, tr[j].type, tr[j].sessionId>>]
KeyTrace(tr, p) == SelectSeq(tr, LAMBDA e : e.cwd = p)

RECURSIVE Interventions(_, _)
Interventions(sid, n) ==
  IF n = 0 THEN <<>>
  ELSE <<(<<"append", "user_intervention", sid>>)>> \o Interventions(sid, n - 1)

\* The effects of a reseal-then-respawn from session old to session new with
\* n derived signals, with or without the agent_online notification.
ResealRespawn(old, new, n, online) ==
  << <<"append", "session_end", old>>, <<"emit", "session_end", old>> >>
  \o Interventions(old, n)
  \o << <<"summary", "summary", old>>, <<"untrack", "untrack", old>>,
        <<"track", "track", new>>, <<"append", "session_start", new>> >>
  \o (IF online THEN << <<"emit", "agent_online", <<>> >> >> ELSE <<>>)
  \o << <<"emit", "session_start", new>> >>

\* tr begins as ex does and goes on with routed events only; if complete, it
\* holds all of ex.
Agree(tr, ex, complete) ==
  LET m == IF Len(tr) < Len(ex) THEN Len(tr) ELSE Len(ex) IN
  /\ SubSeq(tr, 1, m) = SubSeq(ex, 1, m)
  /\ complete => Len(tr) >= Len(ex)
  /\ \A j \in (m + 1)..Len(tr) : tr[j][1] = "append"

\* The step is one pass of pollAdapters' loop body that got past pollAll.
ProcessStep == inflight' # inflight /\ scan' # NoScan

\* The step processes key k's adapter and finds k active with another
\* sessionId than the tracked one.
SidChanged(k) ==
  /\ ProcessStep
  /\ scan'.agent = k[1]
  /\ lastActive[k]
  /\ sessions[k] # NoSession
  /\ scan'.act[k[2]] # 0
  /\ <<k[1], k[2], scan'.act[k[2]]>> # sessions[k].sessionId

ResealStep(k, online) ==
  LET old == sessions[k].sessionId
      new == <<k[1], k[2], scan'.act[k[2]]>>
      tr == Shape(KeyTrace(trace', k[2]))
  IN \E n \in 0..MaxGitSignals :
       LET ex == ResealRespawn(old, new, n, online) IN
       /\ Agree(tr, ex, faults' = faults)
       /\ faults' = faults =>
            /\ sessions'[k].sessionId = new
            /\ sessions'[k].eventCount = Len(tr) - Len(ex)
            /\ lastActive'[k]

StoredIn(evs, u, i) ==
  LET ss == SetToSeq(SessionIds) IN
  SeqSum([j \in 1..Len(ss) |->
            Cardinality({n \in 1..Len(evs[ss[j]]) : evs[ss[j]][n].src = <<u, i>>})])

\* A pass that did not throw did all its work: every key the scan reported
\* is active and tracked under the reported id, and every line the pass
\* consumed is in the Store.
FullyProcessed ==
  (ProcessStep /\ faults' = faults) =>
    /\ \A p \in Projects :
         scan'.act[p] # 0 =>
           /\ lastActive'[sessionKey(scan'.agent, p)]
           /\ sessions'[sessionKey(scan'.agent, p)].sessionId = <<scan'.agent, p, scan'.act[p]>>
    /\ \A u \in Units : \A i \in (lastOffsets[u] + 1)..lastOffsets'[u] :
         StoredIn(events', u, i) = StoredIn(events, u, i) + 1

\* C7: a throw while one adapter is processed leaves the other adapters of
\* the tick fully processed, and later ticks still run: every finished tick
\* has processed every adapter, a pass that did not throw did all its work
\* whatever happened to the adapter before it, and the timer stays set.
C7_FailureConfined ==
  /\ [](tickLog = NoTickLog \/ \A a \in AdapterNames : tickLog[a] \in {"ok", "threw"})
  /\ [][FullyProcessed]_vars
  /\ [](running => pollTimer)

\* A tick has finished in which claude's pass threw and codex's pass, after
\* it, routed an event into the Store.
C7_Witness ==
  /\ inflight = <<>>
  /\ tickLog["claude"] = "threw"
  /\ tickLog["codex"] = "ok"
  /\ \E j \in 1..Len(trace) :
       trace[j].op = "append" /\ trace[j].src # <<>> /\ trace[j].sessionId[1] = "codex"

\* C8: a poll tick never starts for an adapter while a previous tick is
\* still in flight for that adapter: no two calls of pollAdapters in flight
\* are at the same adapter.
C8_NoOverlappingTick ==
  \A i, j \in 1..Len(inflight) : i # j => inflight[i].ai # inflight[j].ai

\* C9: on one adapter instance, over sequential poll and pollAll calls, no
\* portion of a log unit is decoded twice: a read of a unit that is as the
\* read before found it returns no event, and every character is decoded
\* exactly once, by the first read after it was written.
C9_NoPortionDecodedTwice ==
  \A u \in Units :
    /\ rereadEvents[u] = 0
    /\ \A i \in 1..MaxChars : decodedTimes[u][i] = IF i <= seenLen[u] THEN 1 ELSE 0

\* A unit was read, grew by a complete line, was read again, and was read
\* once more unchanged.
C9_Witness ==
  \E u \in Units :
    /\ unchangedReads[u] >= 1
    /\ seenLen[u] = Len(file[u])
    /\ Len(file[u]) >= 3
    /\ SubSeq(file[u], 2, 3) = <<"{", "}">>
    /\ fileOffsets[u] = Len(file[u])
    /\ calls >= 3

\* C10: getSessionEvents returns the events appended under the sessionId:
\* as many, equal to the appended ones, in append order.
C10_ReadBackWhatWasAppended ==
  readBack.read => readBack.events = appended

\* The test runs among the stored events that have failures, and those that
\* passed without any.
FailedRuns == {i \in DOMAIN arg.events :
                 arg.events[i].type = "test_result" /\ arg.events[i].failed > 0}

CleanRuns == {i \in DOMAIN arg.events :
                arg.events[i].type = "test_result" /\ arg.events[i].passed > 0
                /\ arg.events[i].failed = 0}

\* C11: the outcome of a seal is a function of the test_result events of the
\* session alone: partial when some run has failures and some run passed
\* without any failure, else failure when some run has failures, else success
\* when some run passed without any failure, else unknown.
C11_OutcomeFromTestResults ==
  applied =>
    /\ (result.outcome = "partial") <=> (FailedRuns # {} /\ CleanRuns # {})
    /\ (result.outcome = "failure") <=> (FailedRuns # {} /\ CleanRuns = {})
    /\ (result.outcome = "success") <=> (FailedRuns = {} /\ CleanRuns # {})
    /\ (result.outcome = "unknown") <=> (FailedRuns = {} /\ CleanRuns = {})

\* A run with failures that also passed some tests, then an event of another
\* type carrying counts, then nothing else: the outcome is failure.
C11_Witness ==
  /\ applied
  /\ Len(arg.events) = 2
  /\ arg.events[1] = [type |-> "test_result", passed |-> 1, failed |-> 1]
  /\ arg.events[2] = [type |-> "tool_call", passed |-> 1, failed |-> 0]
  /\ result.outcome = "failure"

\* C12: the since an adapter's pollAll is called with is the time of the last
\* tick that processed the adapter without a failure (the time start set the
\* clock to, before any such tick): a failing tick does not advance it.
C12_SinceIsLastSuccessfulTick ==
  \A i \in 1..Len(inflight) :
    inflight[i].since = goodTick[Adapters[inflight[i].ai]]

\* C13: a poll tick begins only while the watcher is running, so none begins
\* after stop; stop leaves the tick in flight as it is, and a tick in flight,
\* stopped or not, ends only when it has processed its last adapter.
C13_StopLetsTickFinish ==
  [][/\ ticks' # ticks => running
     /\ (running /\ ~running') => inflight' = inflight
     /\ Len(inflight') < Len(inflight) => inflight[1].ai = Len(Adapters)]_vars

\* After stop, the tick that was in flight processed an adapter for which it
\* appended session_end, sealed the session and notified the listeners.
C13_Witness ==
  /\ ~running
  /\ \E j \in 1..Len(trace) : trace[j].op = "append" /\ trace[j].type = "session_end"
  /\ \E j \in 1..Len(trace) : trace[j].op = "summary"
  /\ \E j \in 1..Len(trace) : trace[j].op = "emit" /\ trace[j].type = "agent_offline"

\* The j-th effect of the adapter processed last.
IsEffect(j, op, type, p) ==
  trace[j].op = op /\ trace[j].type = type /\ trace[j].cwd = p

\* C14: when the adapter processed last took a key from active to absent,
\* its effects for the key come in this order: session_end appended, the
\* summary written by sealing, session_end notified, agent_offline notified.
C14_AppendSealThenNotify ==
  \A j \in 1..Len(trace) : \A p \in Projects :
    IsEffect(j, "emit", "agent_offline", p) =>
      \E i, s, e \in 1..j :
        /\ i < s /\ s < e /\ e < j
        /\ IsEffect(i, "append", "session_end", p)
        /\ IsEffect(s, "summary", "summary", p)
        /\ IsEffect(e, "emit", "session_end", p)

\* C15: a call of sealSession on a key that has no tracked session returns
\* null and changes nothing: no event appended, no summary written, no Store
\* write attempted, no notification, sessions and lastActive as they were.
C15_SealUnknownIsNoOp ==
  [][(arg'.calls # arg.calls /\ sessions[result'.key] = NoSession) =>
       /\ result'.returned = "null"
       /\ trace' = <<>>
       /\ UNCHANGED <<sessions, lastActive, events, summaries, nSummaries, faults>>]_vars

\* sealSession returned null for a key whose session a tick had sealed before.
C15_Witness ==
  /\ applied
  /\ result.returned = "null"
  /\ sessions[result.key] = NoSession
  /\ \E u \in Units : /\ sessionKey(UnitAdapter(u), UnitProject(u)) = result.key
                       /\ summaries[u] # NoSummary

\* The rule lines as declared: the built-in ones, then the lines of the two
\* exclude files that are neither blank nor comments.
DeclaredLines(content) ==
  SelectSeq(content.lines, LAMBDA l : trim(l) # <<>> /\ Head(trim(l)) # "#")

Declared ==
  HARDCODED_IGNORES \o DeclaredLines(arg.gitignore) \o DeclaredLines(arg.exclude)

MatchingRules ==
  {i \in 1..Len(result.patterns) : matchPattern(arg.relativePath, result.patterns[i])}

LastMatching == CHOOSE i \in MatchingRules : \A j \in MatchingRules : j <= i

C17_DecodeRecoversPath == applied => result.path = arg.path

\* The names a longer run gives below a directory, where rest is the
\* flattened remainder of the path after the directory and seg its next
\* segment.
LongerRuns(seg, rest) ==
  {SubSeq(rest, 1, m) : m \in {k \in (Len(seg) + 1)..Len(rest) :
                                 k = Len(rest) \/ rest[k + 1] = "-"}}

NoLongerRunExists ==
  \A dir \in {<<>>} \cup Ancestors(arg.path) :
    LET after == SubSeq(arg.path, Len(dir) + 2, Len(arg.path))
        seg == Head(splitOn(after, "/"))
        rest == encodeDirName(after)
    IN \A run \in LongerRuns(seg, rest) : ~statSync(dir \o <<"/">> \o run, arg.disk)

\* C17: decoding the flattened name of an existing absolute path returns
\* that path when, below the root and each directory above it, nothing exists
\* that is named by the path's next segment followed by '-' and more of the
\* flattened name.
C17_DecodeRecoversUnshadowedPath ==
  (applied /\ NoLongerRunExists) => result.path = arg.path

\* /b/a-b was decoded from -b-a-b while /b/a exists too.
C17_Witness ==
  /\ applied
  /\ arg.path = <<"/", "b", "/", "a", "-", "b">>
  /\ <<"/", "b", "/", "a">> \in arg.disk
  /\ NoLongerRunExists
  /\ result.path = arg.path

\* C18: pruneOldData with a threshold of zero days leaves no file in the
\* events and sessions directories, with an effectively infinite threshold
\* leaves every file, and the counts it returns are the numbers of files
\* removed from the two directories.
C18_PruneAllNoneAndCounts ==
  applied =>
    /\ arg.maxAgeDays = 0 => (result.events = <<>> /\ result.sessions = <<>>)
    /\ arg.maxAgeDays = InfiniteDays =>
         (result.events = arg.events.files /\ result.sessions = arg.sessions.files)
    /\ result.eventsDeleted = Len(arg.events.files) - Len(result.events)
    /\ result.sessionsDeleted = Len(arg.sessions.files) - Len(result.sessions)

\* C19: detectActive returns every adapter whose detectActivity is true for
\* the project, also when the detectActivity of another adapter fails.
C19_FailureDoesNotSuppress ==
  applied =>
    \A i \in 1..Len(arg.adapters) :
      arg.adapters[i] = "true" =>
        /\ ~result.rejected
        /\ \E j \in 1..Len(result.adapters) : result.adapters[j] = i

\* C20: enrichment does not raise. checkGitSignals gives no signal when the
\* git command throws; detectManualEdits gives a signal for exactly the agent
\* files whose stat returns a time after the threshold, in order, whatever
\* stat does for the others; and the seal appends the signals and writes the
\* summary, counting them as interventions.
C20_EnrichmentNeverRaises ==
  applied =>
    /\ ~result.raised
    /\ arg.git.throws => result.gitSignals = <<>>
    /\ \A i \in 1..Len(arg.agentFiles) :
         (\E j \in 1..Len(result.manualEdits) : result.manualEdits[j] = i)
           <=> (~arg.agentFiles[i].throws /\ arg.agentFiles[i].mtimeMs > arg.now - MinuteMs)
    /\ \A j \in 1..(Len(result.manualEdits) - 1) :
         result.manualEdits[j] < result.manualEdits[j + 1]
    /\ result.summary # NoSummary
    /\ result.summary.interventions = Len(result.gitSignals) + Len(result.manualEdits)
    /\ result.appended = result.summary.interventions

\* git is missing, stat fails for the first agent file and the second was
\* edited after the threshold: one signal, and the summary is written.
C20_Witness ==
  /\ applied
  /\ arg.git.how = "git missing"
  /\ Len(arg.agentFiles) = 2
  /\ arg.agentFiles[1].throws
  /\ result.manualEdits = <<2>>
  /\ result.summary # NoSummary
  /\ result.summary.interventions = 1

\* The parts of C21 about failures: the call does not throw; it returns false
\* when pgrep is missing, fails or times out; and a PID whose inspection
\* throws does not end the scan: a false result has inspected every
\* candidate, a true one every candidate up to the one that matched.
C21_FailuresAreAbsorbed ==
  applied =>
    /\ ~result.threw
    /\ arg.pgrep # "ok" => (~result.value /\ result.inspected = <<>>)
    /\ (arg.pgrep = "ok" /\ ~result.value) =>
         result.inspected = [i \in 1..Len(arg.procs) |-> pidOf(i)]
    /\ result.value =>
         \E k \in 1..Len(arg.procs) : result.inspected = [i \in 1..k |-> pidOf(i)]

\* C21: isCliRunning never throws, returns false when the process listing
\* tool is missing, fails or times out, goes on to the remaining PIDs when
\* one cannot be inspected, and returns true only if some candidate's working
\* directory equals the project path.
C21_TrueOnlyForProjectDir ==
  /\ C21_FailuresAreAbsorbed
  /\ (applied /\ result.value) =>
       \E i \in 1..Len(arg.procs) : arg.procs[i].cwd = arg.cwd

\* The lines of the text the read decoded, and those of them that are
\* malformed: not blank, and not a JSON value.
NewLines == split(SubSeq(arg.content, arg.lastOffset + 1, Len(arg.content)))
Malformed(line) == trim(line) # <<>> /\ ~jsonParses(line)
WellFormed(line) == jsonParses(line) /\ ~decoderThrows(line)

\* C22: a malformed line yields no event and does not make the read fail;
\* every well-formed line of the same read, before or after it, yields all
\* its events, and the events are returned in file order.
C22_MalformedLineSkipped ==
  (applied /\ Len(arg.content) > arg.lastOffset) =>
    /\ ~result.rejected
    /\ \A i \in 1..Len(NewLines) :
         LET n == Cardinality({k \in 1..Len(result.events) : result.events[k][1] = i}) IN
         /\ Malformed(NewLines[i]) => n = 0
         /\ WellFormed(NewLines[i]) => n = eventsPushed(NewLines[i])
    /\ \A k \in 1..(Len(result.events) - 1) :
         LET e == result.events[k]
             f == result.events[k + 1]
         IN e[1] < f[1] \/ (e[1] = f[1] /\ e[2] < f[2])

\* A read of three lines, the second of them malformed, returned the events
\* of the first and of the third.
C22_Witness ==
  /\ applied
  /\ Len(NewLines) >= 3
  /\ WellFormed(NewLines[1])
  /\ Malformed(NewLines[2])
  /\ WellFormed(NewLines[3])
  /\ \E k \in 1..Len(result.events) : result.events[k][1] = 1
  /\ \E k \in 1..Len(result.events) : result.events[k][1] = 3

\* C23: when two pollAll calls on one adapter instance overlap, no event is
\* returned by both: the events decoded from a line are returned at most once.
C23_OverlapDeliversOnce ==
  \A u \in Units : \A p \in 1..MaxChars : arg.delivered[u][p] <= 1

\* The complete lines of a unit that every call made so far has gone past: a
\* line "{}" that begins the file or follows a newline, with its newline
\* written, and the stored offset at or after that newline.
CompleteLinesRead(u) ==
  {p \in 1..(Len(file[u]) - 2) :
     /\ p = 1 \/ file[u][p - 1] = "\n"
     /\ SubSeq(file[u], p, p + 2) = <<"{", "}", "\n">>
     /\ fileOffsets[u] >= p + 2}

\* C24: a line that was partly written when a poll read the unit is decoded
\* exactly once by a later poll once the writer has completed it: no complete
\* line that the polls have gone past is left undelivered, or delivered twice.
C24_PartialLineDecodedOnce ==
  arg.reads = <<>> =>
    \A u \in Units : \A p \in CompleteLinesRead(u) : arg.delivered[u][p] = 1

\* The step processes adapter k[1] in a tick, its scan not reporting the
\* project of key k, whose session was tracked and marked active: the tick
\* attempts the offline transition of k.
OfflineAttempt(k) ==
  /\ scan' # scan
  /\ scan'.agent = k[1]
  /\ scan'.act[k[2]] = 0
  /\ sessions[k] # NoSession
  /\ lastActive[k]

\* The attempt sealed the session: its summary was written and its
\* TrackedSession removed.
SealedIn(tr, sid) ==
  /\ CountEffects(tr, "summary", "summary", sid) = 1
  /\ CountEffects(tr, "untrack", "untrack", sid) = 1

\* C25: a tick that fails part-way through an offline transition leaves the
\* session tracked and its key marked active, and every later tick that
\* finds the project still inactive retries the transition; one in which no
\* Store write throws seals the session and removes it.
C25_FailedOfflineIsRetried ==
  [][\A k \in Keys :
       OfflineAttempt(k) =>
         LET sid == sessions[k].sessionId IN
         /\ (faults' # faults /\ ~SealedIn(trace', sid)) =>
              (sessions'[k] = sessions[k] /\ lastActive'[k])
         /\ faults' = faults =>
              /\ SealedIn(trace', sid)
              /\ nSummaries'[sid] = nSummaries[sid] + 1
              /\ summaries'[sid].id = sid
              /\ CountEffects(trace', "append", "session_end", sid) >= 1]_vars

\* A first attempt failed after it had appended session_end, and a later
\* tick appended session_end again, wrote the summary and removed the session.
C25_Witness ==
  \E k \in Keys :
    /\ gone[k] # NoGone
    /\ gone[k].ends = 2
    /\ gone[k].sums = 1
    /\ faults = 1
    /\ sessions[k] = NoSession
    /\ ~lastActive[k]

\* C26: two overlapping sealSession calls for one key write the session's
\* summary once and append one set of derived intervention events; the later
\* call does nothing.
C26_OverlappingSealsWriteOnce ==
  \A sid \in SessionIds :
    /\ nSummaries[sid] <= 1
    /\ summaries[sid] # NoSummary =>
         CountType(events[sid], "user_intervention") = summaries[sid].interventions

\* C27: whatever the order of start and stop calls, at most one poll timer
\* is scheduled at any time, and none is scheduled once stop has returned and
\* every start call that was in progress has finished (stop being the call
\* made last).
C27_AtMostOneTimerNoneAfterStop ==
  /\ arg.timers <= 1
  /\ (arg.last = "stop" /\ arg.starting = 0) => arg.timers = 0

\* C28: at every tick boundary (no tick in flight), a key has a
\* TrackedSession exactly if lastActive is true for it, whatever ticks ran
\* before, those in which a Store write or a seal threw included.
C28_TrackedIffLastActive ==
  inflight = <<>> =>
    \A k \in Keys : (sessions[k] # NoSession) <=> lastActive[k]

\* The same for runs in which no operation has thrown.
C28_TrackedIffLastActiveNoFault ==
  (inflight = <<>> /\ faults = 0) =>
    \A k \in Keys : (sessions[k] # NoSession) <=> lastActive[k]

\* The long_pause events in the file that were derived from the pair of
\* events at positions i - 1 and i.
PausesFor(i) ==
  Cardinality({j \in 1..Len(arg.log) :
                 arg.log[j].signal = "long_pause" /\ arg.log[j].pair = i})

\* C29: for every pair of adjacent events of a session's log at most one
\* long_pause event is ever appended, also when the session is sealed more
\* than once.
C29_OnePausePerPair ==
  \A i \in 2..Len(arg.log) : PausesFor(i) <= 1

\* The same while the session has been sealed at most once.
C29_OnePausePerPairFirstSeal ==
  arg.seals <= 1 => \A i \in 2..Len(arg.log) : PausesFor(i) <= 1

\* C30: once the persisted summary of a session is marked analyzed by a
\* review of the still-active session, a later seal of the session does not
\* reset it: the summary of that sessionId stays analyzed.
C30_SealKeepsAnalyzed ==
  [][\A sid \in SessionIds :
       (IF summaries[sid] = NoSummary THEN FALSE ELSE summaries[sid].analyzed) =>
         (IF summaries'[sid] = NoSummary THEN FALSE ELSE summaries'[sid].analyzed)]_vars

\* The events of the Store's log of sid that an adapter decoded (neither a
\* lifecycle event nor one derived at a seal).
DecodedStored(sid) ==
  Cardinality({i \in 1..Len(events[sid]) : events[sid][i].src # <<>>})

\* The keys whose TrackedSession is the first one made for its sessionId: all
\* that the Store holds under the id was appended since it was made.
FirstTracked ==
  {k \in Keys : IF sessions[k] = NoSession THEN FALSE
                ELSE nSummaries[sessions[k].sessionId] = 0}

RECURSIVE sumDecodedStored(_)
sumDecodedStored(K) ==
  IF K = {} THEN 0
  ELSE LET k == CHOOSE x \in K : TRUE
       IN DecodedStored(sessions[k].sessionId) + sumDecodedStored(K \ {k})

\* C31: a TrackedSession's eventCount is the number of adapter-decoded events
\* appended to the Store under its sessionId since it was created, sessions
\* detected at start-up included; getStatus().totalEvents is the number of
\* such stored events over all tracked sessions.
C31_CountIsStoredEvents ==
  /\ \A k \in FirstTracked : sessions[k].eventCount = DecodedStored(sessions[k].sessionId)
  /\ (\A k \in Keys : sessions[k] # NoSession => k \in FirstTracked)
       => getStatus.totalEvents = sumDecodedStored(FirstTracked)

\* The count is never below what was stored.
C31_CountNotBelowStored ==
  \A k \in FirstTracked : sessions[k].eventCount >= DecodedStored(sessions[k].sessionId)

\* The id of the session tracked for key k when the j-th effect of tr was
\* made (<<>>: none), where before is the sessions map when tr began.
TrackedAt(tr, j, k, before) ==
  LET js == {i \in 1..(j - 1) : tr[i].op \in {"track", "untrack"} /\ tr[i].cwd = k[2]}
  IN IF js = {} THEN before[k].sessionId
     ELSE LET m == CHOOSE i \in js : \A h \in js : h <= i
          IN IF tr[m].op = "track" THEN tr[m].sessionId ELSE <<>>

\* The effects of tr that store an event routed from a log line of project p.
RoutedTo(tr, p) ==
  {j \in 1..Len(tr) : tr[j].op = "append" /\ tr[j].src # <<>> /\ tr[j].cwd = p}

\* C32: when an adapter is processed in a tick, every event routed to the
\* Store is stored under the sessionId of the session tracked for its key at
\* that moment, whatever log unit it was decoded from; so the routed events
\* of a key all land in one session's log, which after a sessionId change is
\* the new session's.
C32_RoutedUnderTrackedId ==
  [][(inflight # <<>> /\ inflight' # inflight /\ ticks' = ticks) =>
       \A p \in Projects :
         /\ \A j \in RoutedTo(trace', p) :
              trace'[j].sessionId = TrackedAt(trace', j, sessionKey(scan'.agent, p), sessions)
         /\ \A i, j \in RoutedTo(trace', p) : trace'[i].sessionId = trace'[j].sessionId
         /\ \A h \in 1..Len(trace') :
              (trace'[h].op = "track" /\ trace'[h].cwd = p) =>
                \A j \in RoutedTo(trace', p) : trace'[j].sessionId = trace'[h].sessionId]_vars

\* A tick in which the sessionId changed stored, under the new session's id,
\* an event decoded from the old session's log unit.
C32_Witness ==
  \E h, j \in 1..Len(trace) :
    /\ trace[h].op = "append" /\ trace[h].type = "session_end"
    /\ trace[j].op = "append" /\ trace[j].src # <<>>
    /\ trace[j].src[1] = trace[h].sessionId
    /\ trace[j].sessionId # trace[h].sessionId

\* The effects of tr about project p other than the storing of a routed event.
OtherEffects(tr, p) ==
  {j \in 1..Len(tr) : tr[j].cwd = p /\ ~(tr[j].op = "append" /\ tr[j].src # <<>>)}

\* The routed events of project p stored in tr that are file edits.
RoutedEdits(tr, p) == {j \in RoutedTo(tr, p) : tr[j].type = "file_edit"}

\* Adapter a is processed in this step, and reports key <<a, p>>, which is
\* active and tracked, with the sessionId it is tracked under.
ReportedAgain(a, p) ==
  /\ inflight # <<>> /\ inflight' # inflight /\ ticks' = ticks
  /\ scan'.agent = a
  /\ scan'.act[p] # 0
  /\ lastActive[sessionKey(a, p)]
  /\ IF sessions[sessionKey(a, p)] = NoSession THEN FALSE
     ELSE sessions[sessionKey(a, p)].sessionId = <<a, p, scan'.act[p]>>

SealedId == <<arg.key[1], arg.key[2], 1>>

\* The positions of result.writes that write the summary.
SummaryWrites == {j \in 1..Len(result.writes) : result.writes[j].op = "summary"}

\* C34: a seal that writes the summary has before appended every derived
\* intervention event (commit-message, manual-edit, timing) to the log of the
\* session's id, and the summary's interventions field is the number of
\* intervention events this seal appended.
C34_SignalsAppendedAndCounted ==
  applied =>
    \A s \in SummaryWrites :
      LET derived == result.derived.git \o result.derived.manual \o result.derived.timing
          before == SubSeq(result.writes, 1, s - 1)
      IN /\ s = Len(result.writes)
         /\ Len(before) = Len(derived)
         /\ \A j \in 1..Len(before) :
              /\ before[j].op = "append"
              /\ before[j].file = SealedId
              /\ before[j].event.type = "user_intervention"
              /\ before[j].event.sessionId = SealedId
              /\ before[j].event.signal = derived[j].signal
              /\ before[j].event.timestamp = derived[j].timestamp
         /\ result.writes[s].event.interventions = Len(before)
         /\ result.writes[s].file = SealedId

\* A seal that derived a signal of each kind and wrote the summary.
C34_Witness ==
  /\ applied
  /\ SummaryWrites # {}
  /\ result.derived.git # <<>>
  /\ result.derived.manual # <<>>
  /\ result.derived.timing # <<>>

\* The commits of the window whose subject holds a revert marker or a
\* fixup/squash marker.
MarkedCommits ==
  {i \in 1..Len(arg.git.log) : arg.git.log[i] \in {"revert", "fixup", "revert fixup", "squash"}}

\* C35: the commit-message signal yields exactly one intervention event for
\* each commit of the recent window whose message matches a revert marker or
\* a fixup/squash marker, and none for a commit that matches neither.
C35_OneEventPerMarkedCommit ==
  (applied /\ ~arg.git.throws) => Len(result.gitSignals) = Cardinality(MarkedCommits)

\* The same over windows without a commit that holds both words or is a
\* squash commit.
C35_OneEventPerSingleMarker ==
  (applied /\ ~arg.git.throws
     /\ \A i \in 1..Len(arg.git.log) : arg.git.log[i] \notin {"revert fixup", "squash"})
    => Len(result.gitSignals) = Cardinality(MarkedCommits)

\* The positions of arg.times whose event comes strictly more than the
\* threshold after the event before it.
LongGaps == {i \in 2..Len(arg.times) : arg.times[i] > arg.times[i - 1] + GAP_MS}

\* The j-th of them, in arrival order.
NthLongGap(j) == CHOOSE i \in LongGaps : Cardinality({h \in LongGaps : h < i}) = j - 1

\* C36: detectTimingSignals returns, in arrival order, exactly one long_pause
\* event for every event that comes strictly more than the threshold (5
\* minutes) after the event before it, with the later event's sessionId and
\* timestamp, and nothing for any other adjacent pair: a gap of exactly the
\* threshold and a timestamp that goes backwards are not flagged.
C36_OnePausePerLongGap ==
  applied =>
    /\ Len(result.events) = Cardinality(LongGaps)
    /\ \A j \in 1..Len(result.events) :
         /\ result.events[j].type = "user_intervention"
         /\ result.events[j].signal = "long_pause"
         /\ result.events[j].sessionId = arg.sessionId
         /\ result.events[j].timestamp = arg.times[NthLongGap(j)]

\* A log with a long gap, a gap of exactly the threshold and a timestamp
\* that goes backwards: one event is returned.
C36_Witness ==
  /\ applied
  /\ Len(result.events) = 1
  /\ \E i \in 2..Len(arg.times) : arg.times[i] = arg.times[i - 1] + GAP_MS
  /\ \E i \in 2..Len(arg.times) : arg.times[i] < arg.times[i - 1]

\* The files of the session a manual_edit event was made for.
FlaggedFiles == {result.events[j] : j \in 1..Len(result.events)}

\* C37: at a seal, a file the session touched is flagged as manual_edit
\* exactly when its modification time on disk is after the cutoff and that
\* modification was not made by the agent's tracked tool call; a file last
\* modified by the agent's own edit is not flagged.
C37_OnlyOutsideEditsFlagged ==
  applied =>
    \A i \in 1..Len(arg.agentFiles) :
      i \in FlaggedFiles <=>
        /\ ~arg.agentFiles[i].throws
        /\ arg.agentFiles[i].mtimeMs > arg.now - MinuteMs
        /\ arg.agentFiles[i].by = "user"

\* What is flagged is every file modified after the cutoff, whoever did it.
C37_FlaggedIffAfterCutoff ==
  applied =>
    \A i \in 1..Len(arg.agentFiles) :
      i \in FlaggedFiles <=>
        (~arg.agentFiles[i].throws /\ arg.agentFiles[i].mtimeMs > arg.now - MinuteMs)

\* What the summary line of arg says: go's line tells only whether the
\* package passed, jest's line does not tell the skipped tests.
LineSays ==
  IF arg.family = "go"
  THEN TestResult("go", IF arg.failed = 0 THEN 1 ELSE 0, IF arg.failed = 0 THEN 0 ELSE 1, 0)
  ELSE IF arg.family = "jest"
  THEN TestResult("jest", arg.passed, arg.failed, 0)
  ELSE TestResult(arg.family, arg.passed, arg.failed, arg.skipped)

\* C38: with the patterns tried in the order jest with failures, jest pass,
\* generic/pytest, go, cargo, the summary line of each family is classified
\* as that family with the line's passed, failed and skipped counts, and a
\* run with failures is never recorded with failed = 0.
C38_ClassifiedAsOwnFamily ==
  applied => /\ result = LineSays
             /\ arg.failed > 0 => result.failed > 0

\* The same for every family but cargo.
C38_ClassifiedUnlessCargo ==
  (applied /\ arg.family # "cargo")
    => /\ result = LineSays
       /\ arg.failed > 0 => result.failed > 0

\* The tokens of a name or a path: what lies between its '-' and '/'.
TokensOf(str) == splitOn(Tail(encodeDirName(str)), "-")

\* C40: for every encoded directory name that begins with '-' and whatever
\* exists on disk, decodeDirName returns a path made of the name's tokens,
\* each once and in order, such that replacing every '/' by '-' gives back
\* the name; so two different names never decode to the same path.
C40_DecodeRoundTrip ==
  applied =>
    /\ result.path # <<>> /\ Head(result.path) = "/"
    /\ TokensOf(result.path) = TokensOf(arg.encoded)
    /\ encodeDirName(result.path) = arg.encoded
    /\ encodeDirName(result.otherPath) = arg.other
    /\ arg.encoded # arg.other => result.path # result.otherPath

\* Two different names were decoded, one of them with a run of tokens joined
\* by '-' that exists on disk, followed by a further segment.
C40_Witness ==
  /\ applied
  /\ arg.encoded # arg.other
  /\ arg.encoded = <<"-", "a", "-", "b">>
  /\ result.path = <<"/", "a", "-", "b">>
  /\ \E i \in 2..Len(result.otherPath) :
       /\ result.otherPath[i] = "/"
       /\ \E j \in 2..(i - 1) : result.otherPath[j] = "-"

\* Of the files fs, those at the positions in idx whose stat succeeds.
StatAble(fs, idx) == {i \in idx : ~fs[i].throws}

\* The first listed among the most recently modified of them.
FirstNewest(fs, idx) ==
  CHOOSE i \in StatAble(fs, idx) :
    \A j \in StatAble(fs, idx) :
      fs[j].mtimeMs < fs[i].mtimeMs \/ (fs[j].mtimeMs = fs[i].mtimeMs /\ i <= j)

ActiveCutoff == arg.now - LivenessWindow

\* The entries of the result for the k-th claude directory.
EntriesOfDir(k) == {e \in 1..Len(result.sessions) : result.sessions[e].unit[1] = k}

\* claude judges a directory active that holds a log file and whose newest
\* file is within the liveness window or whose agent process is running.
DirActive(k) ==
  LET fs == arg.dirs[k].files
      idx == 1..Len(fs)
  IN /\ fs # <<>>
     /\ \/ arg.dirs[k].cli
        \/ \E i \in StatAble(fs, idx) : fs[i].mtimeMs >= ActiveCutoff

\* The entries of the result for the codex project c, and its files.
EntriesOfCwd(c) == {e \in 1..Len(result.sessions) : result.sessions[e].cwd = c}
FilesOfCwd(c) == {i \in 1..Len(arg.allFiles) : arg.allFiles[i].cwd = c}

\* C39: getAllActiveSessions returns no two entries for the same project:
\* each project judged active appears exactly once, with its most recently
\* modified log unit, the first listed among units modified at the same time.
C39_OneEntryPerActiveProject ==
  applied =>
    /\ \A i, j \in 1..Len(result.sessions) :
         i # j => result.sessions[i].cwd # result.sessions[j].cwd
    /\ arg.adapter = "claude" =>
         \A k \in 1..Len(arg.dirs) :
           LET fs == arg.dirs[k].files IN
           /\ Cardinality(EntriesOfDir(k)) = IF DirActive(k) THEN 1 ELSE 0
           /\ \A e \in EntriesOfDir(k) :
                /\ result.sessions[e].cwd = decodeDirName(arg.dirs[k].name, arg.disk)
                /\ StatAble(fs, 1..Len(fs)) # {} =>
                     result.sessions[e].unit = <<k, FirstNewest(fs, 1..Len(fs))>>
    /\ arg.adapter = "codex" =>
         /\ \A e \in 1..Len(result.sessions) : result.sessions[e].cwd \in CodexCwds
         /\ \A c \in CodexCwds :
              LET active == \E i \in StatAble(arg.allFiles, FilesOfCwd(c)) :
                              arg.allFiles[i].mtimeMs >= ActiveCutoff
              IN /\ Cardinality(EntriesOfCwd(c)) = IF active THEN 1 ELSE 0
                 /\ \A e \in EntriesOfCwd(c) :
                      result.sessions[e].unit = <<0, FirstNewest(arg.allFiles, FilesOfCwd(c))>>

\* Two projects are reported, one of them with two units modified at the
\* same time, of which the first listed was taken.
C39_Witness ==
  /\ applied
  /\ Len(result.sessions) = 2
  /\ \/ /\ arg.adapter = "codex"
        /\ \E i, j \in 1..Len(arg.allFiles) :
             /\ i < j
             /\ arg.allFiles[i].cwd = arg.allFiles[j].cwd
             /\ ~arg.allFiles[i].throws /\ ~arg.allFiles[j].throws
             /\ arg.allFiles[i].mtimeMs = arg.allFiles[j].mtimeMs
             /\ \E e \in 1..2 : result.sessions[e].unit = <<0, i>>
     \/ /\ arg.adapter = "claude"
        /\ \E k \in 1..Len(arg.dirs) :
             /\ Len(arg.dirs[k].files) = 2
             /\ ~arg.dirs[k].files[1].throws
             /\ arg.dirs[k].files[1] = arg.dirs[k].files[2]
             /\ \E e \in 1..2 : result.sessions[e].unit = <<k, 1>>

====
